---- MODULE Spec2Model ----
(***************************************************************************)
(* Deadline text normalisation, formatting and the deadline picker of the  *)
(* railway-todo-app front end.                                             *)
(*                                                                         *)
(* A JavaScript string is modelled as a sequence of one-character strings. *)
(* The five kanji of the Japanese date notation are written as the tokens  *)
(* "nen" (year), "gatsu" (month), "nichi" (day), "ji" (hour) and "fun"     *)
(* (minute); each token stands for exactly one character of the text.      *)
(***************************************************************************)
EXTENDS Integers, Sequences, FiniteSets, TLC

(***************************************************************************)
(* Bounds of the model.                                                    *)
(***************************************************************************)
\* Number of consecutive calendar years, starting with the leap year 2024,
\* from which the sample texts are drawn.
NumYears == 2

\* Longest chain of conversions applied to one input.
MaxCalls == 3

\* The calendar is moved through this many months after December 2024.
MaxNav == 2

(***************************************************************************)
(* Characters and strings.                                                 *)
(***************************************************************************)
DigitChars == {"0", "1", "2", "3", "4", "5", "6", "7", "8", "9"}

WhiteSpace == {" ", "\t"}

DigitOf ==
  [c \in DigitChars |->
     CASE c = "0" -> 0 [] c = "1" -> 1 [] c = "2" -> 2 [] c = "3" -> 3
       [] c = "4" -> 4 [] c = "5" -> 5 [] c = "6" -> 6 [] c = "7" -> 7
       [] c = "8" -> 8 [] c = "9" -> 9]

DigitChar == <<"0", "1", "2", "3", "4", "5", "6", "7", "8", "9">>

\* String(n) for an integer n >= 0.
RECURSIVE NumStr(_)
NumStr(n) ==
  IF n < 10 THEN <<DigitChar[n + 1]>>
  ELSE NumStr(n \div 10) \o <<DigitChar[(n % 10) + 1]>>

\* Number(s) for a string of decimal digits.
RECURSIVE NumberOf(_)
NumberOf(s) ==
  IF Len(s) = 0 THEN 0
  ELSE 10 * NumberOf(SubSeq(s, 1, Len(s) - 1)) + DigitOf[s[Len(s)]]

\* s.padStart(n, '0')
RECURSIVE PadStart(_, _)
PadStart(s, n) == IF Len(s) >= n THEN s ELSE PadStart(<<"0">> \o s, n)

\* s.trim()
RECURSIVE TrimStart(_)
TrimStart(s) ==
  IF Len(s) > 0 /\ s[1] \in WhiteSpace THEN TrimStart(Tail(s)) ELSE s

RECURSIVE TrimEnd(_)
TrimEnd(s) ==
  IF Len(s) > 0 /\ s[Len(s)] \in WhiteSpace
  THEN TrimEnd(SubSeq(s, 1, Len(s) - 1)) ELSE s

Trim(s) == TrimEnd(TrimStart(s))

\* s.includes(c) for a one-character c
Includes(s, c) == \E i \in 1..Len(s) : s[i] = c

(***************************************************************************)
(* JavaScript values that cross the functions' boundaries: a string, null  *)
(* (also standing for undefined where the code tests only falsiness), or   *)
(* an exception escaping the call.                                         *)
(***************************************************************************)
Str(s) == [tag |-> "str", s |-> s]
Null == [tag |-> "null", s |-> <<>>]
Throw == [tag |-> "throw", s |-> <<>>]

\* JavaScript truthiness of a string-or-null value.
Truthy(v) == v.tag = "str" /\ Len(v.s) > 0

(***************************************************************************)
(* Regular expressions.  Every pattern of the program is anchored at both  *)
(* ends and is a sequence of digit runs \d{min,max}, whitespace runs \s+   *)
(* and literal characters, where no run is followed by a character of its  *)
(* own class; greedy matching without backtracking is therefore exact.     *)
(* grp is the capture group the matched characters belong to (0: none).    *)
(***************************************************************************)
D(min, max, grp) == [cls |-> "d", ch |-> "", min |-> min, max |-> max, grp |-> grp]
S1(grp) == [cls |-> "s", ch |-> "", min |-> 1, max |-> -1, grp |-> grp]
L(ch, grp) == [cls |-> "l", ch |-> ch, min |-> 1, max |-> 1, grp |-> grp]

TokenAccepts(tok, c) ==
  CASE tok.cls = "d" -> c \in DigitChars
    [] tok.cls = "s" -> c \in WhiteSpace
    [] OTHER -> c = tok.ch

\* Length of the longest run of characters of s from position i on that tok
\* accepts, cut at tok.max (max = -1: unbounded).
RECURSIVE RunLen(_, _, _, _)
RunLen(tok, s, i, n) ==
  IF i + n <= Len(s) /\ (tok.max = -1 \/ n < tok.max) /\ TokenAccepts(tok, s[i + n])
  THEN RunLen(tok, s, i, n + 1)
  ELSE n

NoMatch == [ok |-> FALSE, g |-> <<>>]

RECURSIVE MatchFrom(_, _, _, _, _)
MatchFrom(pat, s, k, i, groups) ==
  IF k > Len(pat)
  THEN IF i = Len(s) + 1 THEN [ok |-> TRUE, g |-> groups] ELSE NoMatch
  ELSE LET tok == pat[k]
           n == RunLen(tok, s, i, 0)
       IN IF n < tok.min THEN NoMatch
          ELSE MatchFrom(pat, s, k + 1, i + n,
                 IF tok.grp = 0 THEN groups
                 ELSE [groups EXCEPT ![tok.grp] = @ \o SubSeq(s, i, i + n - 1)])

\* s.match(/^pat$/) with ngroups capture groups: g[j] is the j-th group.
RegexMatch(pat, ngroups, s) ==
  MatchFrom(pat, s, 1, 1, [j \in 1..ngroups |-> <<>>])

(***************************************************************************)
(* The environment and the state.                                          *)
(***************************************************************************)
VARIABLES
  engine,   \* how the JavaScript engine treats a day number past the month's
            \* end in an ISO date string: "rollover" (V8) or "reject"
  vals,     \* vals[1]: the input; vals[k+1]: the result of fns[k] on vals[k]
  fns,      \* the functions applied so far, in order
  src,      \* the components the input vals[1] was written from
  now,      \* the instant the clock shows (a time value)
  hostOffset,         \* the host's timezone, in hours east of UTC
  form,               \* the form component on the page
  mounted,            \* "mounted", "crashed" (an exception escaped an effect)
                      \* or "left" (the page navigated away)
  taskInStore,        \* the store holds the task the form edits
  taskLimit,          \* task.limit of that task
  modalOpen,          \* TaskEditModal: isOpen
  title,              \* a create form's title: '' or a text
  limit,              \* the form's limit state: the deadline text
  capturedLimit,      \* the limit the form's current onSubmit closure holds
  submitting,         \* "idle", "pending" (a request is in flight) or "stuck"
                      \* (onSubmit threw after it marked the form submitting)
  request,            \* the limit field of the request in flight
  isLimitPickerOpen,  \* the form's isLimitPickerOpen state
  year,               \* LimitPicker: displayed year
  month,              \* LimitPicker: displayed month, 1..12
  selectedDate,       \* LimitPicker: 'YYYY-MM-DD' or null
  selectedTime,       \* LimitPicker: 'HH:MM', '' or null
  lastOp,             \* the picker handler the last step ran, by its name
                      \* in LimitPicker.jsx; "none" for any other step
  emitted             \* the callbacks that handler invoked, in order

textVars == <<vals, fns, src>>

pickerVars == <<year, month, selectedDate, selectedTime>>

formVars ==
  <<form, mounted, taskInStore, taskLimit, modalOpen, title, limit,
    capturedLimit,
    submitting, request, isLimitPickerOpen>>

appVars == <<now, hostOffset, formVars, pickerVars, lastOp, emitted>>

vars == <<engine, textVars, appVars>>

Engines == {"rollover", "reject"}

(***************************************************************************)
(* ECMAScript Date.  A time value is NaN or a day number relative to       *)
(* 1970-01-01 with the milliseconds within that day.                       *)
(***************************************************************************)
MsPerDay == 24 * 60 * 60 * 1000

NaNTime == [nan |-> TRUE, day |-> 0, ms |-> 0]

\* MakeDate(day, time): time may lie outside the day.
MakeDate(day, time) ==
  [nan |-> FALSE, day |-> day + (time \div MsPerDay), ms |-> time % MsPerDay]

InLeapYear(y) == (y % 4 = 0 /\ y % 100 # 0) \/ y % 400 = 0

DayFromYear(y) ==
  365 * (y - 1970) + ((y - 1969) \div 4) - ((y - 1901) \div 100)
    + ((y - 1601) \div 400)

\* Day within the year of the first day of month m (0-based).
MonthStart(y, m) ==
  <<0, 31, 59, 90, 120, 151, 181, 212, 243, 273, 304, 334>>[m + 1]
    + (IF m >= 2 /\ InLeapYear(y) THEN 1 ELSE 0)

\* MakeDay(year, month, date), month 0-based; date may exceed the month.
MakeDay(yr, mon, date) ==
  LET ym == yr + (mon \div 12)
      mn == mon % 12
  IN DayFromYear(ym) + MonthStart(ym, mn) + date - 1

MakeTime(hour, min, sec, ms) ==
  hour * 60 * 60 * 1000 + min * 60 * 1000 + sec * 1000 + ms

RECURSIVE YearAdjust(_, _)
YearAdjust(y, day) ==
  IF DayFromYear(y) > day THEN YearAdjust(y - 1, day)
  ELSE IF DayFromYear(y + 1) <= day THEN YearAdjust(y + 1, day)
  ELSE y

YearFromDay(day) == YearAdjust(1970 + (day \div 365), day)

MonthFromDay(day) ==
  LET y == YearFromDay(day)
      k == day - DayFromYear(y)
  IN CHOOSE m \in 0..11 :
       /\ MonthStart(y, m) <= k
       /\ (m = 11 \/ k < MonthStart(y, m + 1))

DateFromDay(day) ==
  LET y == YearFromDay(day)
  IN day - DayFromYear(y) - MonthStart(y, MonthFromDay(day)) + 1

\* new Date(y, m, 0).getDate(): the length of month m (1-based) of year y.
DaysInMonthOf(y, m) ==
  IF m = 12 THEN 31 ELSE MonthStart(y, m) - MonthStart(y, m - 1)

\* A JavaScript number read from a Date: NaN when the Date is invalid.
Num(n) == [nan |-> FALSE, n |-> n]
NaNNum == [nan |-> TRUE, n |-> 0]

GetUTCFullYear(t) == IF t.nan THEN NaNNum ELSE Num(YearFromDay(t.day))
GetUTCMonth(t) == IF t.nan THEN NaNNum ELSE Num(MonthFromDay(t.day))
GetUTCDate(t) == IF t.nan THEN NaNNum ELSE Num(DateFromDay(t.day))
GetUTCHours(t) == IF t.nan THEN NaNNum ELSE Num(t.ms \div (60 * 60 * 1000))
GetUTCMinutes(t) == IF t.nan THEN NaNNum ELSE Num((t.ms \div (60 * 1000)) % 60)
GetUTCSeconds(t) == IF t.nan THEN NaNNum ELSE Num((t.ms \div 1000) % 60)
GetUTCMilliseconds(t) == IF t.nan THEN NaNNum ELSE Num(t.ms % 1000)

\* x + k for a number x that may be NaN
NumPlus(x, k) == IF x.nan THEN NaNNum ELSE Num(x.n + k)

\* String(x)
NumToString(x) == IF x.nan THEN <<"N", "a", "N">> ELSE NumStr(x.n)

\* date.getTime() + k
TimePlus(t, k) == IF t.nan THEN NaNTime ELSE MakeDate(t.day, t.ms + k)

\* The date-time patterns of the ECMAScript Date Time String Format that the
\* program's strings can have: YYYY-MM-DDTHH:mm:ss followed by Z, by .sssZ
\* or by a numeric offset +HH:mm.
IsoHead ==
  <<D(4, 4, 1), L("-", 0), D(2, 2, 2), L("-", 0), D(2, 2, 3), L("T", 0),
    D(2, 2, 4), L(":", 0), D(2, 2, 5), L(":", 0), D(2, 2, 6)>>

IsoZ == IsoHead \o <<L("Z", 0)>>
IsoMsZ == IsoHead \o <<L(".", 0), D(3, 3, 7), L("Z", 0)>>
IsoPlus == IsoHead \o <<L("+", 0), D(2, 2, 8), L(":", 0), D(2, 2, 9)>>

\* The value of a set of one element: Only({F(v) : v \in {e}}) is F(e) with
\* e evaluated once.
Only(S) == CHOOSE x \in S : TRUE

\* Date.parse(s).  A string of none of the three shapes, or one with a field
\* out of range, is not a date-time string of the format; what the engines'
\* fallback parsers make of such a string is NaN for every string the model
\* passes (digit-free text, or one of the shapes with a field out of range).
\* The one point on which the engines differ for these shapes is a day
\* number between the month's length and 31.
DateParse(s) ==
  Only({
    IF ~m.ok THEN NaNTime
    ELSE Only({
      LET y == f[1]
          mo == f[2]
          d == f[3]
          h == f[4]
          mi == f[5]
          sec == f[6]
          ms == f[7]
          oh == f[8]
          om == f[9]
          dayOk == /\ d >= 1
                   /\ IF engine = "rollover" THEN d <= 31
                      ELSE mo \in 1..12 /\ d <= DaysInMonthOf(y, mo)
          timeOk == \/ h <= 23 /\ mi <= 59 /\ sec <= 59
                    \/ h = 24 /\ mi = 0 /\ sec = 0 /\ ms = 0
      IN IF mo \in 1..12 /\ dayOk /\ timeOk /\ oh <= 23 /\ om <= 59
         THEN MakeDate(MakeDay(y, mo - 1, d),
                       MakeTime(h, mi, sec, ms) - MakeTime(oh, om, 0, 0))
         ELSE NaNTime
      : f \in {[j \in 1..9 |-> NumberOf(m.g[j])]}})
    : m \in {IF mz.ok THEN mz ELSE IF mm.ok THEN mm ELSE mp
             : mz \in {RegexMatch(IsoZ, 9, s)},
               mm \in {RegexMatch(IsoMsZ, 9, s)},
               mp \in {RegexMatch(IsoPlus, 9, s)}}})

\* date.toISOString(): RangeError for an invalid Date, else
\* YYYY-MM-DDTHH:mm:ss.sssZ (a year outside 0..9999 has a sign and six digits).
ToISOString(t) ==
  IF t.nan THEN Throw
  ELSE LET y == YearFromDay(t.day)
           ys == IF y \in 0..9999 THEN PadStart(NumStr(y), 4)
                 ELSE IF y < 0 THEN <<"-">> \o PadStart(NumStr(0 - y), 6)
                 ELSE <<"+">> \o PadStart(NumStr(y), 6)
       IN Str(ys \o <<"-">> \o PadStart(NumStr(MonthFromDay(t.day) + 1), 2)
                 \o <<"-">> \o PadStart(NumStr(DateFromDay(t.day)), 2)
                 \o <<"T">> \o PadStart(NumStr(GetUTCHours(t).n), 2)
                 \o <<":">> \o PadStart(NumStr(GetUTCMinutes(t).n), 2)
                 \o <<":">> \o PadStart(NumStr(GetUTCSeconds(t).n), 2)
                 \o <<".">> \o PadStart(NumStr(GetUTCMilliseconds(t).n), 3)
                 \o <<"Z">>)

\* new Date(s).toISOString()
NewDateToISOString(s) ==
  Only({ToISOString(t) : t \in {DateParse(v) : v \in {s}}})

(***************************************************************************)
(* The deadline text grammars.                                             *)
(***************************************************************************)
\* /^(\d{4})\/(\d{1,2})\/(\d{1,2})\s+(\d{1,2}):(\d{1,2})$/
SlashPattern ==
  <<D(4, 4, 1), L("/", 0), D(1, 2, 2), L("/", 0), D(1, 2, 3), S1(0),
    D(1, 2, 4), L(":", 0), D(1, 2, 5)>>

\* /^(\d{4})nen(\d{1,2})gatsu(\d{1,2})nichi(\d{1,2})ji(\d{1,2})fun$/
KanjiMinutePattern ==
  <<D(4, 4, 1), L("nen", 0), D(1, 2, 2), L("gatsu", 0), D(1, 2, 3),
    L("nichi", 0), D(1, 2, 4), L("ji", 0), D(1, 2, 5), L("fun", 0)>>

\* /^(\d{4})nen(\d{1,2})gatsu(\d{1,2})nichi(\d{1,2})ji$/
KanjiHourPattern ==
  <<D(4, 4, 1), L("nen", 0), D(1, 2, 2), L("gatsu", 0), D(1, 2, 3),
    L("nichi", 0), D(1, 2, 4), L("ji", 0)>>

\* /^(\d{4}-\d{2}-\d{2})-(\d{2}:\d{2}:\d{2})$/
LegacyPattern ==
  <<D(4, 4, 1), L("-", 1), D(2, 2, 1), L("-", 1), D(2, 2, 1), L("-", 0),
    D(2, 2, 2), L(":", 2), D(2, 2, 2), L(":", 2), D(2, 2, 2)>>

\* The same string with the offset lost: the local time read as UTC.
JstDateTimeStringAsUTC(yyyy, mm, dd, hh, mi) ==
  yyyy \o <<"-">> \o mm \o <<"-">> \o dd \o <<"T">> \o hh \o <<":">> \o mi
    \o <<":", "0", "0", "+", "0", "0", ":", "0", "0">>

\* `${yyyy}-${mm}-${dd}T${hh}:${mi}:00+09:00`
JstDateTimeString(yyyy, mm, dd, hh, mi) ==
  yyyy \o <<"-">> \o mm \o <<"-">> \o dd \o <<"T">> \o hh \o <<":">> \o mi
    \o <<":", "0", "0", "+", "0", "9", ":", "0", "0">>

\* `${old[1]}T${old[2]}+09:00`
LegacyDateTimeString(date, time) ==
  date \o <<"T">> \o time \o <<"+", "0", "9", ":", "0", "0">>

\* parseLimitText(text)
ParseLimitText(text) ==
  LET raw == Trim(IF Truthy(text) THEN text.s ELSE <<>>)
  IN Only({
    IF raw = <<>> THEN Null
    ELSE IF slash1.ok THEN
      NewDateToISOString(JstDateTimeString(
        slash1.g[1], PadStart(slash1.g[2], 2), PadStart(slash1.g[3], 2),
        PadStart(slash1.g[4], 2), PadStart(slash1.g[5], 2)))
    ELSE IF jp1.ok THEN
      NewDateToISOString(JstDateTimeString(
        jp1.g[1], PadStart(jp1.g[2], 2), PadStart(jp1.g[3], 2),
        PadStart(jp1.g[4], 2), PadStart(jp1.g[5], 2)))
    ELSE IF jp2.ok THEN
      NewDateToISOString(JstDateTimeString(
        jp2.g[1], PadStart(jp2.g[2], 2), PadStart(jp2.g[3], 2),
        PadStart(jp2.g[4], 2), <<"0", "0">>))
    ELSE IF old.ok THEN
      NewDateToISOString(LegacyDateTimeString(old.g[1], old.g[2]))
    ELSE IF RegexMatch(IsoZ, 9, raw).ok THEN Str(raw)
    ELSE Null
    : slash1 \in {RegexMatch(SlashPattern, 5, raw)},
      jp1 \in {RegexMatch(KanjiMinutePattern, 5, raw)},
      jp2 \in {RegexMatch(KanjiHourPattern, 4, raw)},
      old \in {RegexMatch(LegacyPattern, 2, raw)}})

\* parseJapaneseToISO(jpText)
ParseJapaneseToISO(jpText) ==
  LET raw == Trim(jpText.s)
  IN Only({
    IF ~Truthy(jpText) \/ Trim(jpText.s) = <<>> THEN Null
    ELSE IF slash1.ok THEN
      NewDateToISOString(JstDateTimeString(
        slash1.g[1], PadStart(slash1.g[2], 2), PadStart(slash1.g[3], 2),
        PadStart(slash1.g[4], 2), PadStart(slash1.g[5], 2)))
    ELSE IF jp1.ok THEN
      NewDateToISOString(JstDateTimeString(
        jp1.g[1], PadStart(jp1.g[2], 2), PadStart(jp1.g[3], 2),
        PadStart(jp1.g[4], 2), PadStart(jp1.g[5], 2)))
    ELSE IF jp2.ok THEN
      NewDateToISOString(JstDateTimeString(
        jp2.g[1], PadStart(jp2.g[2], 2), PadStart(jp2.g[3], 2),
        PadStart(jp2.g[4], 2), <<"0", "0">>))
    ELSE IF m1.ok THEN
      NewDateToISOString(LegacyDateTimeString(m1.g[1], m1.g[2]))
    ELSE IF Includes(raw, "T") /\ Includes(raw, "Z") THEN Str(raw)
    ELSE Null
    : slash1 \in {RegexMatch(SlashPattern, 5, raw)},
      jp1 \in {RegexMatch(KanjiMinutePattern, 5, raw)},
      jp2 \in {RegexMatch(KanjiHourPattern, 4, raw)},
      m1 \in {RegexMatch(LegacyPattern, 2, raw)}})

(***************************************************************************)
(* formatISOToJapanese(iso).  No operation of its try block throws: an     *)
(* invalid Date yields NaN from every getter.                              *)
(***************************************************************************)
\* formatISOToJapanese with the minute written as it is, not padded.
FormatISOToJapaneseUnpadded(iso) ==
  IF ~Truthy(iso) THEN Str(<<>>)
  ELSE LET jstDate == TimePlus(DateParse(iso.s), 9 * 60 * 60 * 1000)
       IN Str(NumToString(GetUTCFullYear(jstDate)) \o <<"/">>
                \o NumToString(NumPlus(GetUTCMonth(jstDate), 1)) \o <<"/">>
                \o NumToString(GetUTCDate(jstDate)) \o <<" ">>
                \o NumToString(GetUTCHours(jstDate)) \o <<":">>
                \o NumToString(GetUTCMinutes(jstDate)))

FormatISOToJapanese(iso) ==
  IF ~Truthy(iso) THEN Str(<<>>)
  ELSE LET date == DateParse(iso.s)
           jstDate == TimePlus(date, 9 * 60 * 60 * 1000)
           yr == GetUTCFullYear(jstDate)
           mon == NumPlus(GetUTCMonth(jstDate), 1)
           day == GetUTCDate(jstDate)
           hours == GetUTCHours(jstDate)
           minutes == GetUTCMinutes(jstDate)
       IN Str(NumToString(yr) \o <<"/">> \o NumToString(mon) \o <<"/">>
                \o NumToString(day) \o <<" ">> \o NumToString(hours) \o <<":">>
                \o (IF ~minutes.nan /\ minutes.n = 0 THEN <<"0", "0">>
                    ELSE PadStart(NumToString(minutes), 2)))


(***************************************************************************)
(* The kanji renderings of a stored deadline.                              *)
(***************************************************************************)
\* EditTask: the text the effect on [task] puts into the limit field.
\* iso = task.limit || ''
EditTaskLimitText(stored) ==
  LET iso == IF Truthy(stored) THEN stored.s ELSE <<>>
      m == RegexMatch(IsoZ, 9, iso)
      mi == NumberOf(m.g[5])
      head == m.g[1] \o <<"nen">> \o NumStr(NumberOf(m.g[2])) \o <<"gatsu">>
                \o NumStr(NumberOf(m.g[3])) \o <<"nichi">>
                \o NumStr(NumberOf(m.g[4])) \o <<"ji">>
  IN IF m.ok
     THEN IF mi = 0 THEN Str(head) ELSE Str(head \o NumStr(mi) \o <<"fun">>)
     ELSE Str(iso)

\* EditTask of pages/lists/[listId]/tasks/[taskId]: the text its effect on
\* [task] puts into the limit field, the hour with no minute.
EditTaskPageLimitText(stored) ==
  LET iso == IF Truthy(stored) THEN stored.s ELSE <<>>
      m == RegexMatch(IsoZ, 9, iso)
  IN IF m.ok
     THEN Str(m.g[1] \o <<"nen">> \o NumStr(NumberOf(m.g[2])) \o <<"gatsu">>
                \o NumStr(NumberOf(m.g[3])) \o <<"nichi">>
                \o NumStr(NumberOf(m.g[4])) \o <<"ji">>)
     ELSE Str(iso)

\* TaskItem (list row): formatLimitForDisplay(value)
FormatLimitForDisplay(value) ==
  IF ~Truthy(value) THEN Null
  ELSE LET m == RegexMatch(IsoZ, 9, value.s)
       IN IF m.ok
          THEN Str(m.g[1] \o <<"nen">> \o NumStr(NumberOf(m.g[2])) \o <<"gatsu">>
                     \o NumStr(NumberOf(m.g[3])) \o <<"nichi">>
                     \o NumStr(NumberOf(m.g[4])) \o <<"ji", "0", "0", "fun">>)
          ELSE value

(***************************************************************************)
(* Sample inputs.  A text is written from local date-time components in    *)
(* one of the notations; the components include values out of range.       *)
(***************************************************************************)
Years == 2024..(2024 + NumYears - 1)

Components(fmt, y, mo, d, h, mi, sec) ==
  [fmt |-> fmt, y |-> y, mo |-> mo, d |-> d, h |-> h, mi |-> mi, sec |-> sec]

NoComponents(fmt) == Components(fmt, 0, 0, 0, 0, 0, 0)

P2(n) == PadStart(NumStr(n), 2)

\* The text of components c in notation c.fmt.
TextOf(c) ==
  CASE c.fmt = "slash" ->
         NumStr(c.y) \o <<"/">> \o NumStr(c.mo) \o <<"/">> \o NumStr(c.d)
           \o <<" ">> \o NumStr(c.h) \o <<":">> \o P2(c.mi)
    [] c.fmt = "slashPadded" ->
         NumStr(c.y) \o <<"/">> \o P2(c.mo) \o <<"/">> \o P2(c.d)
           \o <<" ">> \o P2(c.h) \o <<":">> \o P2(c.mi)
    [] c.fmt = "slashShortMinute" ->
         NumStr(c.y) \o <<"/">> \o NumStr(c.mo) \o <<"/">> \o NumStr(c.d)
           \o <<" ">> \o NumStr(c.h) \o <<":">> \o NumStr(c.mi)
    [] c.fmt = "kanjiMinute" ->
         NumStr(c.y) \o <<"nen">> \o NumStr(c.mo) \o <<"gatsu">> \o NumStr(c.d)
           \o <<"nichi">> \o NumStr(c.h) \o <<"ji">> \o NumStr(c.mi) \o <<"fun">>
    [] c.fmt = "kanjiHour" ->
         NumStr(c.y) \o <<"nen">> \o NumStr(c.mo) \o <<"gatsu">> \o NumStr(c.d)
           \o <<"nichi">> \o NumStr(c.h) \o <<"ji">>
    [] c.fmt = "legacy" ->
         NumStr(c.y) \o <<"-">> \o P2(c.mo) \o <<"-">> \o P2(c.d) \o <<"-">>
           \o P2(c.h) \o <<":">> \o P2(c.mi) \o <<":">> \o P2(c.sec)
    [] c.fmt \in {"iso", "stored"} ->
         NumStr(c.y) \o <<"-">> \o P2(c.mo) \o <<"-">> \o P2(c.d) \o <<"T">>
           \o P2(c.h) \o <<":">> \o P2(c.mi) \o <<":">> \o P2(c.sec) \o <<"Z">>
    [] c.fmt = "storedMs" ->
         NumStr(c.y) \o <<"-">> \o P2(c.mo) \o <<"-">> \o P2(c.d) \o <<"T">>
           \o P2(c.h) \o <<":">> \o P2(c.mi) \o <<":">> \o P2(c.sec)
           \o <<".", "0", "0", "0", "Z">>

MinuteFormats == {"slash", "slashPadded", "slashShortMinute", "kanjiMinute"}
SecondFormats == {"legacy", "iso"}
LocalFormats == MinuteFormats \cup {"kanjiHour", "legacy"}
TextFormats == LocalFormats \cup {"iso"}
\* A stored deadline: the canonical form YYYY-MM-DDTHH:MM:00Z, and the form
\* with milliseconds that Date.prototype.toISOString writes.
StoredFormats == {"stored", "storedMs"}

\* The notations every sample date and time is written in, and those
\* written from a smaller sample.
PrimaryFormats == {"slash", "kanjiMinute", "kanjiHour"}

\* Dates and times in range, up to the day number: day 29, 30 or 31 may lie
\* past the end of the month.
RegularComponents(fmt) ==
  {Components(fmt, y, mo, d, h, mi, sec) :
     y \in Years,
     mo \in (IF fmt \in PrimaryFormats THEN {1, 2, 3, 5, 12} ELSE {1, 2, 12}),
     d \in (IF fmt \in PrimaryFormats THEN {1, 28, 29, 30, 31} ELSE {1, 30}),
     h \in (IF fmt \in PrimaryFormats THEN {0, 8, 9, 23} ELSE {0, 16}),
     mi \in (IF fmt = "kanjiHour" THEN {0} ELSE {0, 5, 30}),
     sec \in (IF fmt \in SecondFormats THEN {0, 33} ELSE {0})}

\* 25 October 2025 16:30 with one field, or all four, out of range.
OutOfRangeComponents(fmt) ==
  LET mi0 == IF fmt = "kanjiHour" THEN 0 ELSE 30
  IN {Components(fmt, 2025, mo, 25, 16, mi0, 0) : mo \in {0, 13}}
       \cup {Components(fmt, 2025, 10, d, 16, mi0, 0) : d \in {0, 32, 45}}
       \cup {Components(fmt, 2025, 10, 25, h, mi, 0) :
               h \in {24, 25}, mi \in {0, mi0}}
       \cup (IF fmt = "kanjiHour" THEN {}
             ELSE {Components(fmt, 2025, 10, 25, 16, mi, 0) : mi \in {60, 99}})
       \cup {Components(fmt, 2025, 13, 45, 25, IF fmt = "kanjiHour" THEN 0 ELSE 99, 0)}

ComponentsIn(fmt) == RegularComponents(fmt) \cup OutOfRangeComponents(fmt)

\* Texts of no deadline notation, and the missing text (null / undefined).
OtherTexts ==
  {Null,
   Str(<<>>),
   Str(<<" ">>),
   Str(<<" ", "\t", " ">>),
   Str(<<"n", "o", "t", " ", "a", " ", "d", "a", "t", "e">>),
   Str(<<"g", "a", "r", "b", "a", "g", "e">>),
   Str(<<"x", "T", "Z">>),
   Str(<<"T", "B", "D", " ", "Z", "z", "z">>),
   Str(<<"2", "0", "2", "5", "/", "1", "0", "/", "2", "5">>),
   Str(<<"1", "6", ":", "3", "0">>),
   Str(<<"2", "0", "2", "5", "/", "1", "0", "/", "2", "5", " ", "1", "6", ":", "3", "0", "0">>),
   Str(<<"2", "0", "2", "5", "nen", "1", "0", "gatsu", "2", "5", "nichi">>),
   Str(<<"2", "0", "2", "5", "-", "1", "0", "-", "2", "5", "T", "0", "7", ":", "3", "0", "Z">>)}

\* Stored deadlines that are real UTC dates and times.
StoredComponents(fmt) ==
  {c \in {Components(fmt, y, mo, d, h, mi, 0) :
            y \in Years, mo \in {1, 2, 4, 12}, d \in {1, 28, 29, 30, 31},
            h \in {0, 7, 14, 15, 23},
            mi \in (IF fmt = "stored" THEN {0, 5, 30, 59} ELSE {0, 30})} :
     c.d <= DaysInMonthOf(c.y, c.mo)}

\* Stored values that are no canonical timestamp, and the absent deadline.
OtherStored ==
  {Null,
   Str(<<>>),
   Str(<<"g", "a", "r", "b", "a", "g", "e">>),
   Str(<<"n", "o", "t", " ", "a", " ", "d", "a", "t", "e">>),
   Str(TextOf(Components("stored", 2025, 13, 45, 25, 99, 0))),
   Str(TextOf(Components("stored", 2025, 13, 25, 7, 30, 0))),
   Str(TextOf(Components("stored", 2025, 10, 25, 7, 99, 0)))}

(***************************************************************************)
(* LimitPicker.                                                            *)
(***************************************************************************)
\* new Date().getFullYear() and new Date().getMonth() + 1: the clock read in
\* the timezone of the host.
HostYear == YearFromDay(TimePlus(now, hostOffset * 60 * 60 * 1000).day)
HostMonth == MonthFromDay(TimePlus(now, hostOffset * 60 * 60 * 1000).day) + 1

NoDefault == [tag |-> "ok", date |-> Null, time |-> Null]

\* parseDefault reading the date and the time of the UTC instant itself.
DefaultOfUTC(iso) ==
  IF iso.tag = "throw" THEN [tag |-> "throw", date |-> Null, time |-> Null]
  ELSE IF ~Truthy(iso) THEN NoDefault
  ELSE Only({
    [tag |-> "ok",
     date |-> Str(NumToString(GetUTCFullYear(utcDate)) \o <<"-">>
                    \o PadStart(NumToString(NumPlus(GetUTCMonth(utcDate), 1)), 2)
                    \o <<"-">> \o PadStart(NumToString(GetUTCDate(utcDate)), 2)),
     time |-> Str(PadStart(NumToString(GetUTCHours(utcDate)), 2) \o <<":">>
                    \o PadStart(NumToString(GetUTCMinutes(utcDate)), 2))]
    : utcDate \in {DateParse(iso.s)}})

\* The lines of parseDefault after `const iso = parseLimitText(text)`.
DefaultOf(iso) ==
  IF iso.tag = "throw" THEN [tag |-> "throw", date |-> Null, time |-> Null]
  ELSE IF ~Truthy(iso) THEN NoDefault
  ELSE Only({
    LET yyyy == NumToString(GetUTCFullYear(jstDate))
        mm == PadStart(NumToString(NumPlus(GetUTCMonth(jstDate), 1)), 2)
        dd == PadStart(NumToString(GetUTCDate(jstDate)), 2)
        hh == PadStart(NumToString(GetUTCHours(jstDate)), 2)
        mi == PadStart(NumToString(GetUTCMinutes(jstDate)), 2)
    IN [tag |-> "ok",
        date |-> Str(yyyy \o <<"-">> \o mm \o <<"-">> \o dd),
        time |-> Str(hh \o <<":">> \o mi)]
    : jstDate \in {TimePlus(DateParse(iso.s), 9 * 60 * 60 * 1000)}})

\* parseDefault(text).  parseLimitText is called before the try block, so
\* its exception leaves parseDefault.
ParseDefault(text) ==
  IF ~Truthy(text) THEN NoDefault
  ELSE Only({DefaultOf(iso) : iso \in {ParseLimitText(text)}})

\* s.split('-')[k], k counted from 0
RECURSIVE SplitDash(_, _)
SplitDash(s, k) ==
  LET i == IF \E j \in 1..Len(s) : s[j] = "-"
           THEN CHOOSE j \in 1..Len(s) :
                  s[j] = "-" /\ \A q \in 1..(j - 1) : s[q] # "-"
           ELSE Len(s) + 1
  IN IF k = 0 THEN SubSeq(s, 1, i - 1)
     ELSE SplitDash(SubSeq(s, i + 1, Len(s)), k - 1)

NaN == "NaN"

\* Number(s) of a field of the date string
ToNumber(s) ==
  IF s # <<>> /\ \A i \in 1..Len(s) : s[i] \in DigitChars THEN NumberOf(s) ELSE NaN

\* The state of a picker: the four useState cells.
Picker(y, m, date, time) ==
  [year |-> y, month |-> m, selectedDate |-> date, selectedTime |-> time]

Current == Picker(year, month, selectedDate, selectedTime)

\* The state a picker is mounted with.
InitialPicker == Picker(HostYear, HostMonth, Null, Null)

SetPicker(p) ==
  /\ year' = p.year
  /\ month' = p.month
  /\ selectedDate' = p.selectedDate
  /\ selectedTime' = p.selectedTime

\* useState(...): the cells when the picker is mounted.
SetPickerInit ==
  /\ year = HostYear
  /\ month = HostMonth
  /\ selectedDate = Null
  /\ selectedTime = Null

\* The cells the effect on [isOpen, defaultLimitText] sets when
\* parseDefault(defaultLimitText) returns r.
SeedOf(r) ==
  IF Truthy(r.date)
  THEN Picker(ToNumber(SplitDash(r.date.s, 0)),
              ToNumber(SplitDash(r.date.s, 1)), r.date, r.time)
  ELSE Picker(HostYear, HostMonth, Null, r.time)

\* The effect run on a picker in state p with isOpen = open and
\* defaultLimitText = text.  An exception in an effect takes the component
\* tree down.
PickerEffect(open, text, p) ==
  \E r \in {IF open THEN ParseDefault(Str(text)) ELSE NoDefault} :
    /\ SetPicker(IF ~open \/ r.tag = "throw" THEN p ELSE SeedOf(r))
    /\ mounted' = IF open /\ r.tag = "throw" THEN "crashed" ELSE mounted

\* The year new Date(year, month, date) makes of its first argument: a year
\* of 0..99 stands for 1900 + year.
FullYear(y) == IF y \in 0..99 THEN 1900 + y ELSE y

\* daysInMonth: new Date(year, month, 0).getDate()
DaysInMonth(y, m) == DaysInMonthOf(FullYear(y), m)

\* firstDayOfWeek counting the days of the week from Monday.
FirstDayOfWeekFromMonday(y, m) == (MakeDay(FullYear(y), m - 1, 1) + 3) % 7

\* firstDayOfWeek: new Date(year, month - 1, 1).getDay().  Day 0 of the time
\* scale, 1 January 1970, was a Thursday.
FirstDayOfWeek(y, m) == (MakeDay(FullYear(y), m - 1, 1) + 4) % 7

\* calendarDays, with 0 for a blank cell (null).
CalendarCells(y, m) ==
  [i \in 1..(FirstDayOfWeek(y, m) + DaysInMonth(y, m)) |->
     IF i <= FirstDayOfWeek(y, m) THEN 0 ELSE i - FirstDayOfWeek(y, m)]

\* timeOptions
TimeOptions ==
  [i \in 1..48 |-> P2((i - 1) \div 2) \o <<":">> \o P2(((i - 1) % 2) * 30)]

\* canSubmit looking at the date alone.
CanSubmitDateOnly == Truthy(selectedDate)

\* canSubmit
CanSubmit == Truthy(selectedDate) /\ Truthy(selectedTime)

\* /^(\d{4})-(\d{2})-(\d{2})$/ and /^(\d{2}):(\d{2})$/
DatePattern == <<D(4, 4, 1), L("-", 0), D(2, 2, 2), L("-", 0), D(2, 2, 3)>>
TimePattern == <<D(2, 2, 1), L(":", 0), D(2, 2, 2)>>

\* toJpText keeping the leading zeros of month, day and hour.
ToJpTextPadded(dateStr, timeStr) ==
  LET m == RegexMatch(DatePattern, 3, dateStr.s)
      t == RegexMatch(TimePattern, 2, timeStr.s)
  IN IF ~Truthy(dateStr) \/ ~Truthy(timeStr) THEN <<>>
     ELSE IF ~m.ok \/ ~t.ok THEN <<>>
     ELSE m.g[1] \o <<"/">> \o m.g[2] \o <<"/">> \o m.g[3] \o <<" ">>
            \o t.g[1] \o <<":">> \o t.g[2]

\* toJpText(dateStr, timeStr)
ToJpText(dateStr, timeStr) ==
  LET m == RegexMatch(DatePattern, 3, dateStr.s)
      t == RegexMatch(TimePattern, 2, timeStr.s)
  IN IF ~Truthy(dateStr) \/ ~Truthy(timeStr) THEN <<>>
     ELSE IF ~m.ok \/ ~t.ok THEN <<>>
     ELSE m.g[1] \o <<"/">> \o NumStr(NumberOf(m.g[2])) \o <<"/">>
            \o NumStr(NumberOf(m.g[3])) \o <<" ">> \o NumStr(NumberOf(t.g[1]))
            \o <<":">> \o t.g[2]

\* `${year}-${mm}-${dd}` of handleDateClick
DateString(y, m, day) == NumStr(y) \o <<"-">> \o P2(m) \o <<"-">> \o P2(day)

\* The calls a picker handler makes on its props, in order.
OnConfirm(text) == [ev |-> "onConfirm", arg |-> text]
OnClose == [ev |-> "onClose", arg |-> <<>>]

(***************************************************************************)
(* The task forms.  TaskCreateForm is the create form with a text input    *)
(* for the deadline, TaskCreateFormPicker the create form with the picker, *)
(* EditTask the edit page with the picker, EditTaskPage the edit page with *)
(* a text input for the deadline, TaskEditModal the edit modal.            *)
(* The store and its requests are outside the program: a request is in     *)
(* flight from the dispatch to its answer.                                 *)
(***************************************************************************)
Forms ==
  {"TaskCreateForm", "TaskCreateFormPicker", "EditTask", "EditTaskPage",
   "TaskEditModal"}
PickerForms == {"TaskCreateFormPicker", "EditTask", "TaskEditModal"}
EditForms == {"EditTask", "EditTaskPage", "TaskEditModal"}
EditPages == {"EditTask", "EditTaskPage"}
TextForms == {"TaskCreateForm", "EditTaskPage"}
CreateForms == {"TaskCreateForm", "TaskCreateFormPicker"}

NoRequest == [tag |-> "none", s |-> <<>>]

\* limit && limit.trim() !== '' ? limit.trim() : ''
RawLimit(text) == IF text # <<>> /\ Trim(text) # <<>> THEN Trim(text) ELSE <<>>

\* `${yyyy}-${mm}-${dd}T${hh}:${mi}:00Z`
UTCDateTimeString(yyyy, mm, dd, hh, mi) ==
  yyyy \o <<"-">> \o mm \o <<"-">> \o dd \o <<"T">> \o hh \o <<":">> \o mi
    \o <<":", "0", "0", "Z">>

\* `${m[1]}T${m[2]}Z`
LegacyUTCString(date, time) == date \o <<"T">> \o time \o <<"Z">>

\* nextLimit of TaskCreateForm.onSubmit
TaskCreateFormNextLimit(text) ==
  LET raw == RawLimit(text)
      jp == RegexMatch(KanjiHourPattern, 4, raw)
      m == RegexMatch(LegacyPattern, 2, raw)
  IN IF raw = <<>> THEN Null
     ELSE IF jp.ok THEN
       Str(UTCDateTimeString(jp.g[1], PadStart(jp.g[2], 2), PadStart(jp.g[3], 2),
                             PadStart(jp.g[4], 2), <<"0", "0">>))
     ELSE IF m.ok THEN Str(LegacyUTCString(m.g[1], m.g[2]))
     ELSE Str(raw)

\* nextLimit of EditTask.onSubmit
EditTaskNextLimit(text) ==
  LET raw == RawLimit(text)
      jp1 == RegexMatch(KanjiMinutePattern, 5, raw)
      jp2 == RegexMatch(KanjiHourPattern, 4, raw)
      m1 == RegexMatch(LegacyPattern, 2, raw)
  IN IF raw = <<>> THEN Null
     ELSE IF jp1.ok THEN
       Str(UTCDateTimeString(jp1.g[1], PadStart(jp1.g[2], 2), PadStart(jp1.g[3], 2),
                             PadStart(jp1.g[4], 2), PadStart(jp1.g[5], 2)))
     ELSE IF jp2.ok THEN
       Str(UTCDateTimeString(jp2.g[1], PadStart(jp2.g[2], 2), PadStart(jp2.g[3], 2),
                             PadStart(jp2.g[4], 2), <<"0", "0">>))
     ELSE IF m1.ok THEN Str(LegacyUTCString(m1.g[1], m1.g[2]))
     ELSE Str(raw)

\* nextLimit of onSubmit of the EditTask page
EditTaskPageNextLimit(text) ==
  LET raw == RawLimit(text)
      jp == RegexMatch(KanjiHourPattern, 4, raw)
      m1 == RegexMatch(LegacyPattern, 2, raw)
  IN IF raw = <<>> THEN Null
     ELSE IF jp.ok THEN
       Str(UTCDateTimeString(jp.g[1], PadStart(jp.g[2], 2), PadStart(jp.g[3], 2),
                             PadStart(jp.g[4], 2), <<"0", "0">>))
     ELSE IF m1.ok THEN Str(LegacyUTCString(m1.g[1], m1.g[2]))
     ELSE Str(raw)

\* The limit of the request a form's onSubmit dispatches.  TaskCreateForm's
\* onSubmit is memoized on [title, detail, done]: it reads the limit of the
\* render that last changed one of them.
NextLimit ==
  CASE form = "TaskCreateForm" -> TaskCreateFormNextLimit(capturedLimit)
    [] form = "EditTask" -> EditTaskNextLimit(limit)
    [] form = "EditTaskPage" -> EditTaskPageNextLimit(limit)
    [] OTHER -> ParseLimitText(Str(limit))

\* The clock, the same through a run: 2024-12-31T16:00:00Z, the first hour
\* of 2025 at UTC+9.
Now0 == MakeDate(MakeDay(2024, 11, 31), MakeTime(16, 0, 0, 0))

\* Offsets of the host's timezone from UTC, in hours.
HostOffsets == {0, 9}

\* The months the calendar is moved through: December 2024 and the MaxNav
\* months after it.
MonthIndex(y, m) == 12 * y + (m - 1)
InNavWindow(y, m) ==
  /\ MonthIndex(y, m) >= MonthIndex(2024, 12)
  /\ MonthIndex(y, m) <= MonthIndex(2024, 12) + MaxNav

\* A grid with a button for day 31 in every month.
SampleDaysTo31(y, m) == {31}

\* The day clicked, the last button of the grid, and the times chosen, of
\* those the picker offers.
SampleDays(y, m) == {CalendarCells(y, m)[Len(CalendarCells(y, m))]}
SampleTimes == {<<>>, TimeOptions[1]}

\* The deadlines of the task an edit form is opened on.
StoredSamples ==
  {Null, Str(TextOf(Components("stored", 2024, 12, 31, 15, 0, 0))),
   Str(TextOf(Components("stored", 2024, 12, 31, 15, 7, 0)))}

\* The texts typed into TaskCreateForm's deadline input.
TypedTexts ==
  {<<>>,
   TextOf(Components("slash", 2025, 10, 25, 16, 30, 0)),
   TextOf(Components("kanjiHour", 2025, 10, 25, 16, 0, 0)),
   TextOf(Components("kanjiHour", 2025, 13, 45, 25, 0, 0)),
   TextOf(Components("legacy", 2025, 10, 25, 16, 30, 15)),
   <<"n", "o", "t", " ", "a", " ", "d", "a", "t", "e">>}

\* The form is on screen.
Active == mounted = "mounted" /\ (form = "TaskEditModal" => modalOpen)

PickerShown == Active /\ form \in PickerForms /\ isLimitPickerOpen

\* The picker handler that ran and the calls it made on its props, and what
\* is recorded of a step of anything else: no such handler ran.
Op(name, events) == lastOp' = name /\ emitted' = events
Quiet == Op("none", <<>>)

\* The picker's effect run when defaultLimitText alone changes.
AfterRenderOfTextOnly(open, text) ==
  IF form \in PickerForms /\ text # limit
  THEN PickerEffect(open, text, Current)
  ELSE UNCHANGED <<pickerVars, mounted>>

\* The picker's effect after a render that changed isOpen or
\* defaultLimitText to open and text.
AfterRender(open, text) ==
  IF form \in PickerForms /\ (open # isLimitPickerOpen \/ text # limit)
  THEN PickerEffect(open, text, Current)
  ELSE UNCHANGED <<pickerVars, mounted>>

envVars == <<engine, now, hostOffset, form, taskLimit, textVars>>

\* onChange of the deadline input of a form that has one
SetLimit ==
  /\ form \in TextForms /\ Active /\ submitting = "idle"
  /\ \E text \in TypedTexts : limit' = text
  /\ Quiet
  /\ UNCHANGED <<envVars, title, mounted, taskInStore, modalOpen, capturedLimit,
                 submitting, request, isLimitPickerOpen, pickerVars>>

\* The title typed into a create form.
TypedTitle == "Buy some milk"

\* onChange of a create form's title input, which is required.  In
\* TaskCreateForm onSubmit is made anew.
SetTitle ==
  /\ form \in CreateForms /\ Active /\ submitting = "idle"
  /\ title' = TypedTitle
  /\ capturedLimit' = IF form = "TaskCreateForm" THEN limit ELSE capturedLimit
  /\ Quiet
  /\ UNCHANGED <<envVars, mounted, taskInStore, modalOpen, limit,
                 submitting, request, isLimitPickerOpen, pickerVars>>

\* handleDiscard
HandleDiscard ==
  /\ form \in CreateForms /\ Active /\ submitting = "idle"
  /\ title # ""
  /\ title' = ""
  /\ limit' = <<>>
  /\ capturedLimit' = <<>>
  /\ AfterRender(isLimitPickerOpen, <<>>)
  /\ Quiet
  /\ UNCHANGED <<envVars, taskInStore, modalOpen, submitting, request,
                 isLimitPickerOpen>>

\* EditTask: the task comes into the store and the effect on [task] runs.
TaskArrives ==
  /\ form \in EditPages /\ Active /\ ~taskInStore
  /\ taskInStore' = TRUE
  /\ limit' = IF form = "EditTask" THEN EditTaskLimitText(taskLimit).s
               ELSE EditTaskPageLimitText(taskLimit).s
  /\ AfterRender(isLimitPickerOpen, limit')
  /\ Quiet
  /\ UNCHANGED <<envVars, title, modalOpen, capturedLimit, submitting, request,
                 isLimitPickerOpen>>

\* TaskEditModal: isOpen becomes true, the effect on [isOpen, task] runs and
\* the picker is mounted.
OpenModal ==
  /\ form = "TaskEditModal" /\ mounted = "mounted" /\ ~modalOpen
  /\ modalOpen' = TRUE
  /\ limit' = FormatISOToJapanese(IF Truthy(taskLimit) THEN taskLimit
                                  ELSE Str(<<>>)).s
  /\ PickerEffect(isLimitPickerOpen, limit', InitialPicker)
  /\ Quiet
  /\ UNCHANGED <<envVars, title, taskInStore, capturedLimit, submitting, request,
                 isLimitPickerOpen>>

\* TaskEditModal: the store replaces the task while the modal is open (the
\* answer to the fetchTasks dispatched on opening, or any other update of
\* the task list): useSelector returns a new task object and the effect on
\* [isOpen, task] runs again.
StoreUpdatesTask ==
  /\ form = "TaskEditModal" /\ Active /\ taskInStore
  /\ limit' = FormatISOToJapanese(IF Truthy(taskLimit) THEN taskLimit
                                  ELSE Str(<<>>)).s
  /\ AfterRender(isLimitPickerOpen, limit')
  /\ Quiet
  /\ UNCHANGED <<envVars, title, taskInStore, modalOpen, capturedLimit, submitting,
                 request, isLimitPickerOpen>>

\* TaskEditModal: onClose of the modal; its children unmount.
CloseModal ==
  /\ form = "TaskEditModal" /\ Active /\ ~isLimitPickerOpen
  /\ modalOpen' = FALSE
  /\ SetPicker(InitialPicker)
  /\ Quiet
  /\ UNCHANGED <<envVars, title, mounted, taskInStore, limit, capturedLimit,
                 submitting, request, isLimitPickerOpen>>

\* openLimitPicker.  The create form disables the button while it is
\* submitting; on the edit forms the user is taken to wait for the answer.
OpenLimitPicker ==
  /\ form \in PickerForms /\ Active /\ ~isLimitPickerOpen
  /\ submitting = "idle"
  /\ isLimitPickerOpen' = TRUE
  /\ AfterRender(TRUE, limit)
  /\ Quiet
  /\ UNCHANGED <<envVars, title, taskInStore, modalOpen, limit, capturedLimit,
                 submitting, request>>

\* What a picker handler leaves alone.
UnchangedByPicker ==
  UNCHANGED <<envVars, title, mounted, taskInStore, modalOpen, capturedLimit,
              submitting, request>>

\* handlePrevMonth without the branch for January.
HandlePrevMonthNoWrap ==
  /\ PickerShown
  /\ IF month = 1 THEN InNavWindow(year - 1, 12) ELSE InNavWindow(year, month - 1)
  /\ month' = month - 1 /\ UNCHANGED year
  /\ Op("handlePrevMonth", <<>>)
  /\ UNCHANGED <<selectedDate, selectedTime, limit, isLimitPickerOpen>>
  /\ UnchangedByPicker

\* handlePrevMonth
HandlePrevMonth ==
  /\ PickerShown
  /\ IF month = 1 THEN InNavWindow(year - 1, 12) ELSE InNavWindow(year, month - 1)
  /\ IF month = 1 THEN year' = year - 1 /\ month' = 12
     ELSE month' = month - 1 /\ UNCHANGED year
  /\ Op("handlePrevMonth", <<>>)
  /\ UNCHANGED <<selectedDate, selectedTime, limit, isLimitPickerOpen>>
  /\ UnchangedByPicker

\* handleNextMonth dropping the selected date with the month it leaves.
HandleNextMonthDropsDate ==
  /\ PickerShown
  /\ IF month = 12 THEN InNavWindow(year + 1, 1) ELSE InNavWindow(year, month + 1)
  /\ IF month = 12 THEN year' = year + 1 /\ month' = 1
     ELSE month' = month + 1 /\ UNCHANGED year
  /\ selectedDate' = Null
  /\ Op("handleNextMonth", <<>>)
  /\ UNCHANGED <<selectedTime, limit, isLimitPickerOpen>>
  /\ UnchangedByPicker

\* handleNextMonth
HandleNextMonth ==
  /\ PickerShown
  /\ IF month = 12 THEN InNavWindow(year + 1, 1) ELSE InNavWindow(year, month + 1)
  /\ IF month = 12 THEN year' = year + 1 /\ month' = 1
     ELSE month' = month + 1 /\ UNCHANGED year
  /\ Op("handleNextMonth", <<>>)
  /\ UNCHANGED <<selectedDate, selectedTime, limit, isLimitPickerOpen>>
  /\ UnchangedByPicker

\* handleDateClick(day), for a day button of the grid
HandleDateClick ==
  /\ PickerShown
  /\ \E day \in SampleDays(year, month) :
       selectedDate' = Str(DateString(year, month, day))
  /\ Op("handleDateClick", <<>>)
  /\ UNCHANGED <<year, month, selectedTime, limit, isLimitPickerOpen>>
  /\ UnchangedByPicker

\* onChange of the time select: setSelectedTime(e.target.value)
SetSelectedTime ==
  /\ PickerShown
  /\ \E t \in SampleTimes : selectedTime' = Str(t)
  /\ Op("setSelectedTime", <<>>)
  /\ UNCHANGED <<year, month, selectedDate, limit, isLimitPickerOpen>>
  /\ UnchangedByPicker

\* handleConfirm calling onClose before onConfirm.
HandleConfirmClosesFirst ==
  /\ PickerShown
  /\ IF ~CanSubmit
     THEN /\ Op("handleConfirm", <<>>)
          /\ UNCHANGED <<limit, isLimitPickerOpen>>
     ELSE LET jp == ToJpText(selectedDate, selectedTime)
          IN /\ limit' = jp
             /\ isLimitPickerOpen' = FALSE
             /\ Op("handleConfirm", <<OnClose, OnConfirm(jp)>>)
  /\ UNCHANGED pickerVars
  /\ UnchangedByPicker

\* handleConfirm; onConfirm is handleConfirmLimit, onClose closeLimitPicker
HandleConfirm ==
  /\ PickerShown
  /\ IF ~CanSubmit
     THEN /\ Op("handleConfirm", <<>>)
          /\ UNCHANGED <<limit, isLimitPickerOpen>>
     ELSE LET jp == ToJpText(selectedDate, selectedTime)
          IN /\ limit' = jp
             /\ isLimitPickerOpen' = FALSE
             /\ Op("handleConfirm", <<OnConfirm(jp), OnClose>>)
  /\ UNCHANGED pickerVars
  /\ UnchangedByPicker

\* handleClear handing the selection to onConfirm when there is one.
HandleClearEmitsSelection ==
  /\ PickerShown
  /\ selectedDate' = Null
  /\ selectedTime' = Null
  /\ limit' = ToJpText(selectedDate, selectedTime)
  /\ isLimitPickerOpen' = FALSE
  /\ Op("handleClear",
        <<OnConfirm(ToJpText(selectedDate, selectedTime)), OnClose>>)
  /\ UNCHANGED <<year, month>>
  /\ UnchangedByPicker

\* handleClear
HandleClear ==
  /\ PickerShown
  /\ selectedDate' = Null
  /\ selectedTime' = Null
  /\ limit' = <<>>
  /\ isLimitPickerOpen' = FALSE
  /\ Op("handleClear", <<OnConfirm(<<>>), OnClose>>)
  /\ UNCHANGED <<year, month>>
  /\ UnchangedByPicker

\* onClose of the picker: its close button, or the Escape key where the
\* picker's Modal is the only one open
CloseLimitPicker ==
  /\ PickerShown
  /\ isLimitPickerOpen' = FALSE
  /\ Op("closeLimitPicker", <<OnClose>>)
  /\ UNCHANGED <<pickerVars, limit>>
  /\ UnchangedByPicker

\* The Escape key in TaskEditModal.  Every open Modal has its own keydown
\* listener on document, in the capture phase: stopPropagation in one does
\* not keep the other from running, so the listener of the edit modal calls
\* its onClose and, when the picker is open, the listener of the picker's
\* Modal calls closeLimitPicker.  The closed modal unmounts its children.
HandleEscapeKey ==
  /\ form = "TaskEditModal" /\ Active
  /\ modalOpen' = FALSE
  /\ isLimitPickerOpen' = FALSE
  /\ SetPicker(InitialPicker)
  /\ Op("handleEscapeKey", IF isLimitPickerOpen THEN <<OnClose>> ELSE <<>>)
  /\ UNCHANGED <<envVars, title, mounted, taskInStore, limit, capturedLimit,
                 submitting, request>>

\* onSubmit, with the picker closed: an open picker is a modal dialog over
\* the form.  The submitting flag is set before nextLimit is computed: an
\* exception there leaves the form submitting, with no request sent.  A
\* create form is not submitted while its required title is empty.
OnSubmit ==
  /\ Active /\ submitting = "idle"
  /\ form \in CreateForms => title # ""
  /\ ~isLimitPickerOpen
  /\ \E nextLimit \in {NextLimit} :
       IF nextLimit.tag = "throw"
       THEN submitting' = "stuck" /\ UNCHANGED request
       ELSE submitting' = "pending" /\ request' = nextLimit
  /\ Quiet
  /\ UNCHANGED <<envVars, title, mounted, taskInStore, modalOpen, limit, capturedLimit,
                 isLimitPickerOpen, pickerVars>>

\* The request succeeds: handleDiscard in a create form, history.push from
\* EditTask, onClose from TaskEditModal.
Fulfilled ==
  /\ mounted = "mounted" /\ submitting = "pending"
  /\ request' = NoRequest
  /\ submitting' = "idle"
  /\ CASE form \in CreateForms ->
            /\ title' = ""
            /\ limit' = <<>>
            /\ capturedLimit' = <<>>
            /\ AfterRender(isLimitPickerOpen, <<>>)
            /\ UNCHANGED modalOpen
       [] form \in EditPages ->
            /\ mounted' = "left"
            /\ UNCHANGED <<title, limit, capturedLimit, modalOpen, pickerVars>>
       [] form = "TaskEditModal" ->
            /\ modalOpen' = FALSE
            /\ SetPicker(InitialPicker)
            /\ UNCHANGED <<title, limit, capturedLimit, mounted>>
  /\ Quiet
  /\ UNCHANGED <<envVars, taskInStore, isLimitPickerOpen>>

\* The request fails: the form takes input again.
Rejected ==
  /\ mounted = "mounted" /\ submitting = "pending"
  /\ request' = NoRequest
  /\ submitting' = "idle"
  /\ Quiet
  /\ UNCHANGED <<envVars, title, mounted, taskInStore, modalOpen, limit, capturedLimit,
                 isLimitPickerOpen, pickerVars>>

\* No conversion is under way.
NoChain == vals = <<>> /\ fns = <<>> /\ src = NoComponents("none")

Init ==
  /\ engine \in Engines
  /\ NoChain
  /\ now = Now0
  /\ hostOffset \in HostOffsets
  /\ form \in Forms
  /\ mounted = "mounted"
  /\ taskInStore = (form = "TaskEditModal")
  /\ taskLimit \in (IF form \in EditForms THEN StoredSamples ELSE {Null})
  /\ modalOpen = (form # "TaskEditModal")
  /\ title = ""
  /\ limit = <<>>
  /\ capturedLimit = <<>>
  /\ submitting = "idle"
  /\ request = NoRequest
  /\ isLimitPickerOpen = FALSE
  /\ SetPickerInit
  /\ lastOp = "none"
  /\ emitted = <<>>

Next ==
  \/ SetLimit \/ SetTitle \/ HandleDiscard \/ TaskArrives
  \/ OpenModal \/ StoreUpdatesTask \/ CloseModal \/ OpenLimitPicker
  \/ HandlePrevMonth \/ HandleNextMonth \/ HandleDateClick \/ SetSelectedTime
  \/ HandleConfirm \/ HandleClear \/ CloseLimitPicker \/ HandleEscapeKey
  \/ OnSubmit \/ Fulfilled \/ Rejected

Spec == Init /\ [][Next]_vars

\* No form is on screen: the state of the program while a conversion is
\* examined by itself.
NoForm ==
  /\ now = Now0
  /\ hostOffset = 9
  /\ form = "none"
  /\ mounted = "mounted"
  /\ taskInStore = FALSE
  /\ taskLimit = Null
  /\ modalOpen = FALSE
  /\ title = ""
  /\ limit = <<>>
  /\ capturedLimit = <<>>
  /\ submitting = "idle"
  /\ request = NoRequest
  /\ isLimitPickerOpen = FALSE
  /\ SetPickerInit
  /\ lastOp = "none"
  /\ emitted = <<>>

(***************************************************************************)
(* Conversions applied in a chain: a parser takes a display text and       *)
(* yields the value to store, a formatter takes a stored value and yields  *)
(* a display text.  An exception ends the chain.                           *)
(***************************************************************************)
Parsers == {"parseLimitText", "parseJapaneseToISO"}
Formatters == {"formatISOToJapanese", "EditTaskLimitText", "formatLimitForDisplay"}

Last(q) == q[Len(q)]

CanCall ==
  /\ Len(fns) < MaxCalls
  /\ Last(vals).tag # "throw"

HoldsText ==
  IF fns = <<>> THEN src.fmt \in TextFormats \cup {"other", "picker"}
  ELSE Last(fns) \in Formatters

HoldsStored ==
  IF fns = <<>> THEN src.fmt \in StoredFormats \cup {"storedOther"}
  ELSE Last(fns) \in Parsers

Call(fn, result) ==
  /\ vals' = Append(vals, result)
  /\ fns' = Append(fns, fn)
  /\ UNCHANGED <<engine, src, appVars>>

CallParseLimitText ==
  /\ CanCall /\ HoldsText
  /\ Call("parseLimitText", ParseLimitText(Last(vals)))

CallParseJapaneseToISO ==
  /\ CanCall /\ HoldsText
  /\ Call("parseJapaneseToISO", ParseJapaneseToISO(Last(vals)))

CallFormatISOToJapanese ==
  /\ CanCall /\ HoldsStored
  /\ Call("formatISOToJapanese", FormatISOToJapanese(Last(vals)))

\* The parsers on every sample text.
InitNormalize ==
  /\ engine \in Engines
  /\ NoForm
  /\ fns = <<>>
  /\ \/ \E fmt \in TextFormats : \E c \in ComponentsIn(fmt) :
          src = c /\ vals = <<Str(TextOf(c))>>
     \/ \E t \in OtherTexts : src = NoComponents("other") /\ vals = <<t>>

NextNormalize == CallParseLimitText \/ CallParseJapaneseToISO

SpecNormalize == InitNormalize /\ [][NextNormalize]_vars


CallEditTaskLimitText ==
  /\ CanCall /\ HoldsStored
  /\ Call("EditTaskLimitText", EditTaskLimitText(Last(vals)))

CallFormatLimitForDisplay ==
  /\ CanCall /\ HoldsStored
  /\ Call("formatLimitForDisplay", FormatLimitForDisplay(Last(vals)))

\* The formatters on every sample stored value.
InitFormat ==
  /\ engine \in Engines
  /\ NoForm
  /\ fns = <<>>
  /\ \/ \E fmt \in StoredFormats : \E c \in StoredComponents(fmt) :
          src = c /\ vals = <<Str(TextOf(c))>>
     \/ \E t \in OtherStored : src = NoComponents("storedOther") /\ vals = <<t>>

NextFormat ==
  CallFormatISOToJapanese \/ CallEditTaskLimitText \/ CallFormatLimitForDisplay

SpecFormat == InitFormat /\ [][NextFormat]_vars

\* A picker confirm on every day button of the sample months, with every
\* time the select offers: the text handed to onConfirm.
InitRoundTrip ==
  /\ engine \in Engines
  /\ NoForm
  /\ fns = <<>>
  /\ \E y \in Years, m \in {1, 3} :
       \E k \in DOMAIN CalendarCells(y, m), i \in DOMAIN TimeOptions :
         LET day == CalendarCells(y, m)[k]
         IN /\ day # 0
            /\ src = Components("picker", y, m, day, (i - 1) \div 2,
                                ((i - 1) % 2) * 30, 0)
            /\ vals = <<Str(ToJpText(Str(DateString(y, m, day)),
                                     Str(TimeOptions[i])))>>

NextRoundTrip == CallParseLimitText \/ CallFormatISOToJapanese

SpecRoundTrip == InitRoundTrip /\ [][NextRoundTrip]_vars

(***************************************************************************)
(* calendarDays computed as its two loops compute it, one push a step, for *)
(* a displayed year and month: vals is the array `days`, with 0 for null.  *)
(***************************************************************************)
\* The displayed years: the sample years and two years that end a century.
CalendarYears == Years \cup {1900, 2000}

InitCalendar ==
  /\ engine \in Engines
  /\ now = Now0
  /\ hostOffset = 9
  /\ form = "none"
  /\ mounted = "mounted"
  /\ taskInStore = FALSE
  /\ taskLimit = Null
  /\ modalOpen = FALSE
  /\ title = ""
  /\ limit = <<>>
  /\ capturedLimit = <<>>
  /\ submitting = "idle"
  /\ request = NoRequest
  /\ isLimitPickerOpen = TRUE
  /\ year \in CalendarYears
  /\ month \in 1..12
  /\ selectedDate = Null
  /\ selectedTime = Null
  /\ lastOp = "none"
  /\ emitted = <<>>
  /\ src = NoComponents("calendar")
  /\ vals = <<>>
  /\ fns = <<>>

Push(cell) ==
  /\ vals' = Append(vals, cell)
  /\ UNCHANGED <<engine, fns, src, appVars>>

\* for (let i = 0; i < firstDayOfWeek; i++) days.push(null)
PushBlank ==
  /\ fns = <<>>
  /\ Len(vals) < FirstDayOfWeek(year, month)
  /\ Push(0)

\* for (let d = 1; d <= daysInMonth; d++) days.push(d)
PushDay ==
  /\ fns = <<>>
  /\ Len(vals) >= FirstDayOfWeek(year, month)
  /\ \E d \in {Len(vals) - FirstDayOfWeek(year, month) + 1} :
       d <= DaysInMonth(year, month) /\ Push(d)

\* return days
ReturnDays ==
  /\ fns = <<>>
  /\ Len(vals) >= FirstDayOfWeek(year, month) + DaysInMonth(year, month)
  /\ fns' = <<"calendarDays">>
  /\ UNCHANGED <<engine, vals, src, appVars>>

NextCalendar == PushBlank \/ PushDay \/ ReturnDays

SpecCalendar == InitCalendar /\ [][NextCalendar]_vars

(***************************************************************************)
(* The time left to a deadline, as the two task rows word it.  The words   *)
(* of the labels are written "nokori" (remaining), "nichi" (days),         *)
(* "jikan" (hours), "fun" (minutes) and "kigenchouka" (overdue), each one  *)
(* element of the text.                                                    *)
(***************************************************************************)
OverdueText == <<"kigenchouka">>

\* limitDate - now, and Date.parse(value) - Date.now(): NaN for an invalid
\* Date.
MsUntil(t) ==
  IF t.nan \/ now.nan THEN NaNNum
  ELSE Num((t.day - now.day) * MsPerDay + (t.ms - now.ms))

\* { text, isOverdue }
TimeRemaining(text, isOverdue) ==
  [tag |-> "obj", s |-> text, isOverdue |-> isOverdue]

\* calculateTimeRemaining(iso).  A comparison with NaN is false and
\* Math.floor(NaN) is NaN.
CalculateTimeRemaining(iso) ==
  IF ~Truthy(iso) THEN Null
  ELSE Only({
    IF diffMs.nan
    THEN TimeRemaining(<<"nokori">> \o NumToString(NaNNum) \o <<"fun">>, FALSE)
    ELSE IF diffMs.n < 0 THEN TimeRemaining(OverdueText, TRUE)
    ELSE LET diffMinutes == diffMs.n \div (1000 * 60)
             diffHours == diffMs.n \div (1000 * 60 * 60)
             diffDays == diffMs.n \div (1000 * 60 * 60 * 24)
             remainingHours ==
               (diffMs.n % (1000 * 60 * 60 * 24)) \div (1000 * 60 * 60)
             remainingMinutes == (diffMs.n % (1000 * 60 * 60)) \div (1000 * 60)
         IN IF diffDays > 0
            THEN TimeRemaining(<<"nokori">> \o NumStr(diffDays) \o <<"nichi">>
                                 \o NumStr(remainingHours) \o <<"jikan">>, FALSE)
            ELSE IF diffHours > 0
            THEN TimeRemaining(<<"nokori">> \o NumStr(diffHours) \o <<"jikan">>
                                 \o NumStr(remainingMinutes) \o <<"fun">>, FALSE)
            ELSE TimeRemaining(<<"nokori">> \o NumStr(diffMinutes) \o <<"fun">>,
                               FALSE)
    : diffMs \in {MsUntil(DateParse(iso.s))}})

\* formatRemainingTime(value)
FormatRemainingTime(value) ==
  IF ~Truthy(value) THEN Str(OverdueText)
  ELSE Only({
    IF ms.nan \/ ms.n <= 0 THEN Str(OverdueText)
    ELSE LET dayMs == 24 * 60 * 60 * 1000
             hourMs == 60 * 60 * 1000
             days == ms.n \div dayMs
             hours == (ms.n % dayMs) \div hourMs
         IN Str(NumStr(days) \o <<"nichi">> \o NumStr(hours) \o <<"jikan">>
                  \o <<"0", "0", "fun">>)
    : ms \in {MsUntil(DateParse(value.s))}})

\* Deadlines by the milliseconds they lie after the clock: around the
\* clock itself, around one minute, one hour and one day, and beyond.
RemainingOffsets ==
  {0 - MsPerDay, 0 - 60000, -1, 0, 1, 59999, 60000, 60001, 1800000,
   3599999, 3600000, 3600001, 5400000, 86399999, 86400000, 86400001,
   90000000, 172800000, 180000000}

\* The clock: on a full second and a millisecond to either side of one.
RemainingNows == {Now0, TimePlus(Now0, 1), TimePlus(Now0, 999)}

Deadline(offset) == [fmt |-> "deadline", offset |-> offset]

\* The row of a task whose limit lies offset milliseconds after the clock.
InitRemaining ==
  /\ engine \in Engines
  /\ now \in RemainingNows
  /\ hostOffset = 9
  /\ form = "none"
  /\ mounted = "mounted"
  /\ taskInStore = FALSE
  /\ modalOpen = FALSE
  /\ title = ""
  /\ limit = <<>>
  /\ capturedLimit = <<>>
  /\ submitting = "idle"
  /\ request = NoRequest
  /\ isLimitPickerOpen = FALSE
  /\ SetPickerInit
  /\ lastOp = "none"
  /\ emitted = <<>>
  /\ fns = <<>>
  /\ \E offset \in RemainingOffsets :
       /\ src = Deadline(offset)
       /\ taskLimit = ToISOString(TimePlus(now, offset))
       /\ vals = <<taskLimit>>

\* The row has not yet applied fn to task.limit.
NotCalled(fn) == \A i \in 1..Len(fns) : fns[i] # fn

CallCalculateTimeRemaining ==
  /\ NotCalled("calculateTimeRemaining")
  /\ Call("calculateTimeRemaining", CalculateTimeRemaining(taskLimit))

CallFormatRemainingTime ==
  /\ NotCalled("formatRemainingTime")
  /\ Call("formatRemainingTime", FormatRemainingTime(taskLimit))

NextRemaining == CallCalculateTimeRemaining \/ CallFormatRemainingTime

SpecRemaining == InitRemaining /\ [][NextRemaining]_vars

(***************************************************************************)
(* Properties.                                                             *)
(***************************************************************************)
\* The calendar, stated without day numbers: the length of a month and the
\* date and time nine hours before a local date and time, by borrowing.
CalendarDays(y, mo) ==
  CASE mo \in {4, 6, 9, 11} -> 30
    [] mo = 2 -> IF (y % 4 = 0 /\ y % 100 # 0) \/ y % 400 = 0 THEN 29 ELSE 28
    [] OTHER -> 31

ValidLocal(c) ==
  /\ c.mo \in 1..12
  /\ c.d \in 1..CalendarDays(c.y, c.mo)
  /\ c.h \in 0..23
  /\ c.mi \in 0..59

Fields(y, mo, d, h, mi) == [y |-> y, mo |-> mo, d |-> d, h |-> h, mi |-> mi]

NineHoursEarlier(c) ==
  IF c.h >= 9 THEN Fields(c.y, c.mo, c.d, c.h - 9, c.mi)
  ELSE IF c.d > 1 THEN Fields(c.y, c.mo, c.d - 1, c.h + 15, c.mi)
  ELSE IF c.mo > 1
       THEN Fields(c.y, c.mo - 1, CalendarDays(c.y, c.mo - 1), c.h + 15, c.mi)
  ELSE Fields(c.y - 1, 12, 31, c.h + 15, c.mi)

\* The date and time fields a timestamp string begins with: YYYY-MM-DDTHH:MM.
\* /^\d{4}-\d{2}-\d{2}T\d{2}:\d{2}/
HasTimestampFields(s) ==
  /\ Len(s) >= 16
  /\ \A i \in {1, 2, 3, 4, 6, 7, 9, 10, 12, 13, 15, 16} : s[i] \in DigitChars
  /\ s[5] = "-" /\ s[8] = "-" /\ s[11] = "T" /\ s[14] = ":"

TimestampFields(s) ==
  Fields(NumberOf(SubSeq(s, 1, 4)), NumberOf(SubSeq(s, 6, 7)),
         NumberOf(SubSeq(s, 9, 10)), NumberOf(SubSeq(s, 12, 13)),
         NumberOf(SubSeq(s, 15, 16)))

\* /^\d{4}-\d{2}-\d{2}T\d{2}:\d{2}:00Z$/
CanonicalPattern ==
  <<D(4, 4, 0), L("-", 0), D(2, 2, 0), L("-", 0), D(2, 2, 0), L("T", 0),
    D(2, 2, 0), L(":", 0), D(2, 2, 0), L(":", 0), L("0", 0), L("0", 0),
    L("Z", 0)>>

IsCanonical(s) == RegexMatch(CanonicalPattern, 1, s).ok

\* A parser has been applied to the input; vals[2] is what it returned.
Parsed == Len(fns) >= 1 /\ fns[1] \in Parsers

\* C1: for a text in slash form or in kanji form with or without minutes
\* whose components are a valid calendar date and time, either parser
\* returns a timestamp whose year, month, day, hour and minute are the local
\* components nine hours earlier, borrowing across day, month and year.
C1_NineHoursEarlier ==
  (/\ Parsed
   /\ src.fmt \in {"slash", "slashPadded", "kanjiMinute", "kanjiHour"}
   /\ ValidLocal(src))
  => /\ vals[2].tag = "str"
     /\ HasTimestampFields(vals[2].s)
     /\ TimestampFields(vals[2].s) = NineHoursEarlier(src)

\* 0:30 local on 1 January 2025 was parsed into 15:30 on 31 December 2024.
C1_Witness ==
  /\ Parsed
  /\ src = Components("slash", 2025, 1, 1, 0, 30, 0)
  /\ vals[2].tag = "str"
  /\ HasTimestampFields(vals[2].s)
  /\ TimestampFields(vals[2].s) = Fields(2024, 12, 31, 15, 30)

\* C2: every value a parser returns, other than null, is a string of the
\* exact form YYYY-MM-DDTHH:MM:00Z, with no fractional-second part.
C2_CanonicalForm ==
  (Parsed /\ vals[2].tag = "str") => IsCanonical(vals[2].s)

\* C4: a parser never throws, also not for a text of one of the notations
\* whose components are out of range.
C4_NeverThrows == Parsed => vals[2].tag # "throw"

\* C5: a parser returns null for the empty string, a whitespace-only string,
\* a missing input and every string of none of the five notations.
C5_AbsentForUnrecognized ==
  (Parsed /\ src.fmt = "other") => vals[2] = Null

\* The date and time nine hours after a UTC date and time, by carrying.
NineHoursLater(c) ==
  IF c.h < 15 THEN Fields(c.y, c.mo, c.d, c.h + 9, c.mi)
  ELSE IF c.d < CalendarDays(c.y, c.mo)
       THEN Fields(c.y, c.mo, c.d + 1, c.h - 15, c.mi)
  ELSE IF c.mo < 12 THEN Fields(c.y, c.mo + 1, 1, c.h - 15, c.mi)
  ELSE Fields(c.y + 1, 1, 1, c.h - 15, c.mi)

\* Y/M/D H:MM: no leading zero but for the minute, which has two digits.
SlashTextOf(f) ==
  NumStr(f.y) \o <<"/">> \o NumStr(f.mo) \o <<"/">> \o NumStr(f.d) \o <<" ">>
    \o NumStr(f.h) \o <<":">>
    \o (IF f.mi < 10 THEN <<"0">> \o NumStr(f.mi) ELSE NumStr(f.mi))

\* The kanji text of a date and time: no minute part when the minute is 0.
KanjiTextOf(f) ==
  NumStr(f.y) \o <<"nen">> \o NumStr(f.mo) \o <<"gatsu">> \o NumStr(f.d)
    \o <<"nichi">> \o NumStr(f.h) \o <<"ji">>
    \o (IF f.mi = 0 THEN <<>> ELSE NumStr(f.mi) \o <<"fun">>)

\* fn has been applied to the input; vals[2] is what it returned.
Applied(fn) == Len(fns) >= 1 /\ fns[1] = fn

\* C7: for every canonical deadline, formatISOToJapanese returns Y/M/D H:MM
\* with the fields of the deadline nine hours later, carried into the next
\* day, month and year; month, day and hour without a leading zero and the
\* minute with exactly two digits.
C7_SlashNineHoursLater ==
  (Applied("formatISOToJapanese") /\ src.fmt = "stored")
  => vals[2] = Str(SlashTextOf(NineHoursLater(src)))

\* 2024-12-31T15:05:00Z was rendered as 2025/1/1 0:05.
C7_Witness ==
  /\ Applied("formatISOToJapanese")
  /\ src = Components("stored", 2024, 12, 31, 15, 5, 0)
  /\ vals[2] = Str(<<"2", "0", "2", "5", "/", "1", "/", "1", " ", "0", ":", "0", "5">>)

\* C8: for a non-empty input that is no valid canonical timestamp,
\* formatISOToJapanese does not throw and returns the input unchanged.
C8_EchoesMalformed ==
  (Applied("formatISOToJapanese") /\ src.fmt = "storedOther" /\ Truthy(vals[1]))
  => vals[2] = vals[1]

\* C9: the kanji rendering of a canonical deadline is written from the
\* deadline in local time, nine hours later: Y nen M gatsu D nichi H ji when
\* the local minute is 0, and with M fun appended otherwise.
C9_KanjiLocalTime ==
  (/\ Applied("EditTaskLimitText") \/ Applied("formatLimitForDisplay")
   /\ src.fmt = "stored")
  => vals[2] = Str(KanjiTextOf(NineHoursLater(src)))

\* C3: the limit of every createTask / updateTask request a form sends is
\* null or a string of the form YYYY-MM-DDTHH:MM:00Z; display text is never
\* sent.
C3_RequestsCanonical == request.tag = "str" => IsCanonical(request.s)

\* C6: for a text the picker's confirm emits, parsing it, formatting the
\* result and parsing again gives the first result again, and the formatted
\* text is the text the picker emitted.
C6_RoundTrip ==
  (src.fmt = "picker" /\ Len(fns) >= 3)
    => /\ fns[1] = "parseLimitText" /\ fns[2] = "formatISOToJapanese"
       /\ fns[3] = "parseLimitText"
       /\ vals[2].tag = "str"
       /\ vals[3] = vals[1]
       /\ vals[4] = vals[2]

\* The round trip of midnight on 1 January, which is stored as a time of
\* the year before.
C6_Witness ==
  /\ src.fmt = "picker" /\ Len(fns) = 3
  /\ src.mo = 1 /\ src.d = 1 /\ src.h = 0 /\ src.mi = 0
  /\ vals[1] = Str(SlashTextOf(Fields(src.y, 1, 1, 0, 0)))
  /\ vals[4] = vals[2]

\* The selection lacks a date or a time (null, or the '' of the --:-- option).
SelectionIncomplete ==
  \/ selectedDate = Null
  \/ selectedTime = Null
  \/ selectedTime = Str(<<>>)

\* C10: handleConfirm with a date or a time missing calls neither onConfirm
\* nor onClose, leaves year, month, selectedDate and selectedTime as they
\* are, leaves the picker open and the form's text alone, and throws nothing.
C10_ConfirmIgnored ==
  [][(lastOp' = "handleConfirm" /\ SelectionIncomplete)
       => /\ emitted' = <<>>
          /\ UNCHANGED <<pickerVars, isLimitPickerOpen, limit, mounted>>]_vars

\* handleConfirm has run on a date with the time put back to --:--.
C10_Witness ==
  /\ lastOp = "handleConfirm"
  /\ emitted = <<>>
  /\ isLimitPickerOpen
  /\ Truthy(selectedDate)
  /\ selectedTime = Str(<<>>)

\* C11: every step of handleClear, whatever is selected, calls onConfirm
\* once with the empty string and then onClose once, and nothing else: the
\* form's deadline text becomes empty and the picker is closed.
C11_ClearEmitsAbsent ==
  [][lastOp' = "handleClear"
       => /\ PickerShown
          /\ emitted' = <<OnConfirm(<<>>), OnClose>>
          /\ limit' = <<>>
          /\ ~isLimitPickerOpen']_vars

\* handleClear has run on a picker that displayed a month other than the
\* clock's: the session was navigated or seeded before it was cleared.
C11_Witness ==
  /\ lastOp = "handleClear"
  /\ emitted = <<OnConfirm(<<>>), OnClose>>
  /\ ~isLimitPickerOpen
  /\ limit = <<>>
  /\ selectedDate = Null /\ selectedTime = Null
  /\ <<year, month>> # <<HostYear, HostMonth>>

\* C12: handlePrevMonth takes (y, 1) to (y - 1, 12) and any other (y, m) to
\* (y, m - 1); handleNextMonth takes (y, 12) to (y + 1, 1) and any other
\* (y, m) to (y, m + 1); a month in 1..12 stays in 1..12.
C12_NavigationWraps ==
  [][/\ lastOp' = "handlePrevMonth"
          => <<year', month'>> = IF month = 1 THEN <<year - 1, 12>>
                                 ELSE <<year, month - 1>>
     /\ lastOp' = "handleNextMonth"
          => <<year', month'>> = IF month = 12 THEN <<year + 1, 1>>
                                 ELSE <<year, month + 1>>
     /\ (lastOp' \in {"handlePrevMonth", "handleNextMonth"} /\ month \in 1..12)
          => month' \in 1..12]_vars

\* handlePrevMonth has gone from January 2025 back to December 2024, after
\* handleNextMonth had reached February 2025 in the same session: a date of
\* February is selected.
C12_Witness ==
  /\ lastOp = "handlePrevMonth"
  /\ year = 2024 /\ month = 12
  /\ selectedDate = Str(DateString(2025, 2, 28))

\* The day of the week of a date of the Gregorian calendar, 0 for Sunday,
\* by the rule of the shifted months.
WeekdayOf(y, m, d) ==
  LET shifted == IF m < 3 THEN y - 1 ELSE y
      offset == <<0, 3, 2, 5, 0, 3, 5, 1, 4, 6, 2, 4>>[m]
  IN (shifted + (shifted \div 4) - (shifted \div 100) + (shifted \div 400)
        + offset + d) % 7

\* C13: the day grid of the displayed year and month is w blank cells, w the
\* day of the week (0 = Sunday) of the first of the month, followed by the
\* cells 1, 2, ..., N in order, N the number of days of the month; a month
\* that starts on a Wednesday has three blank cells.
C13_DayGrid ==
  fns = <<"calendarDays">>
    => LET w == WeekdayOf(year, month, 1)
           N == CalendarDays(year, month)
       IN /\ Len(vals) = w + N
          /\ \A i \in 1..Len(vals) : vals[i] = IF i <= w THEN 0 ELSE i - w
          /\ vals = CalendarCells(year, month)

\* The grid of May 2024, which started on a Wednesday: three blank cells,
\* then 1 to 31.
C13_Witness ==
  /\ fns = <<"calendarDays">>
  /\ year = 2024 /\ month = 5
  /\ SubSeq(vals, 1, 4) = <<0, 0, 0, 1>>
  /\ Len(vals) = 34 /\ vals[34] = 31

\* The label is the overdue label.
IsOverdueLabel(v) == v.tag \in {"obj", "str"} /\ v.s = OverdueText

\* C14: the time left is worded as overdue exactly when the deadline is not
\* after the clock; a deadline at the very millisecond of the clock is
\* overdue, a deadline after it is not.
C14_OverdueAtOrBeforeNow ==
  src.fmt = "deadline"
    => \A i \in 1..Len(fns) : IsOverdueLabel(vals[i + 1]) <=> src.offset <= 0

\* The units a label names, in order, and the amounts before them.
LabelUnits(text) ==
  SelectSeq(text, LAMBDA c : c \in {"nichi", "jikan", "fun"})

LabelAmounts(text) ==
  LET digits == SelectSeq(text, LAMBDA c : c \in DigitChars \cup {"nichi", "jikan", "fun"})
      ends == {i \in 1..Len(digits) : digits[i] \notin DigitChars}
      startOf(i) == IF \E j \in ends : j < i
                    THEN 1 + CHOOSE j \in ends : j < i /\ \A k \in ends : k < i => k <= j
                    ELSE 1
  IN [k \in 1..Len(LabelUnits(text)) |->
        LET e == CHOOSE i \in ends : Cardinality({j \in ends : j <= i}) = k
        IN SubSeq(digits, startOf(e), e - 1)]

\* C15: a deadline after the clock is worded in the coarsest unit that
\* applies: days and hours from 1440 whole minutes on, hours and minutes
\* from 60 whole minutes on, minutes alone below that; 1440 minutes are
\* 1 day 0 hours and 60 minutes are 1 hour 0 minutes.
C15_CoarsestUnit ==
  (src.fmt = "deadline" /\ src.offset > 0)
    => \A i \in 1..Len(fns) :
         LET minutes == src.offset \div 60000
             text == vals[i + 1].s
         IN /\ ~IsOverdueLabel(vals[i + 1])
            /\ IF minutes >= 1440
               THEN /\ LabelUnits(text) = <<"nichi", "jikan">>
                    /\ LabelAmounts(text) = <<NumStr(minutes \div 1440),
                                              NumStr((minutes % 1440) \div 60)>>
               ELSE IF minutes >= 60
               THEN /\ LabelUnits(text) = <<"jikan", "fun">>
                    /\ LabelAmounts(text) = <<NumStr(minutes \div 60),
                                              NumStr(minutes % 60)>>
               ELSE /\ LabelUnits(text) = <<"fun">>
                    /\ LabelAmounts(text) = <<NumStr(minutes)>>

\* Y/M/D of a selected date 'YYYY-MM-DD', month and day without leading
\* zeros, followed by a space.
SlashDateOf(date) ==
  SubSeq(date, 1, 4) \o <<"/">> \o NumStr(NumberOf(SubSeq(date, 6, 7)))
    \o <<"/">> \o NumStr(NumberOf(SubSeq(date, 9, 10))) \o <<" ">>

\* C16: handlePrevMonth and handleNextMonth leave selectedDate and
\* selectedTime as they are, and the text a confirm emits carries the year,
\* month and day of the selected date, whatever month is displayed.
C16_NavigationKeepsSelection ==
  [][/\ lastOp' \in {"handlePrevMonth", "handleNextMonth"}
          => UNCHANGED <<selectedDate, selectedTime>>
     /\ (lastOp' = "handleConfirm" /\ emitted' # <<>>)
          => /\ emitted'[1].ev = "onConfirm"
             /\ Truthy(selectedDate)
             /\ LET head == SlashDateOf(selectedDate.s)
                IN SubSeq(emitted'[1].arg, 1, Len(head)) = head]_vars

\* A confirm made while December 2024 is displayed has emitted the date
\* selected in February 2025.
C16_Witness ==
  /\ lastOp = "handleConfirm"
  /\ year = 2024 /\ month = 12
  /\ selectedDate = Str(DateString(2025, 2, 28))
  /\ emitted = <<OnConfirm(<<"2", "0", "2", "5", "/", "2", "/", "2", "8", " ",
                             "0", ":", "0", "0">>), OnClose>>

\* The 48 times of day the select offers.
TimeSlots ==
  {P2(h) \o <<":">> \o P2(mi) : h \in 0..23, mi \in {0, 30}}

\* C17: while the picker is open, selectedTime is none (null, or the '' of
\* the --:-- option) or one of the 48 times 00:00, 00:30, ..., 23:30.
C17_TimeIsASlot ==
  PickerShown
    => \/ selectedTime = Null
       \/ selectedTime = Str(<<>>)
       \/ selectedTime.tag = "str" /\ selectedTime.s \in TimeSlots

\* A text 'YYYY-MM-DD' that names a day of the calendar.
IsCalendarDate(s) ==
  LET m == RegexMatch(DatePattern, 3, s)
  IN /\ m.ok
     /\ NumberOf(m.g[2]) \in 1..12
     /\ NumberOf(m.g[3]) \in 1..CalendarDays(NumberOf(m.g[1]), NumberOf(m.g[2]))

\* C18: selectedDate is none or a day of the calendar, and the date
\* handleDateClick has stored is a day 1..N of the displayed month and year,
\* N the number of days of that month.
C18_DateIsReal ==
  /\ selectedDate = Null \/ (selectedDate.tag = "str" /\ IsCalendarDate(selectedDate.s))
  /\ lastOp = "handleDateClick"
       => \E day \in 1..CalendarDays(year, month) :
            selectedDate = Str(DateString(year, month, day))

\* The last day of February 2025 has been clicked: the 28th.
C18_Witness ==
  /\ lastOp = "handleDateClick"
  /\ year = 2025 /\ month = 2
  /\ selectedDate = Str(DateString(2025, 2, 28))

\* H:MM of a selected time 'HH:MM': the hour without a leading zero, the
\* minute with its two digits.
SlashTimeOf(time) ==
  NumStr(NumberOf(SubSeq(time, 1, 2))) \o <<":">> \o SubSeq(time, 4, 5)

\* C19: handleConfirm with a date and a time selected calls onConfirm once
\* and then onClose once; the argument of onConfirm is Y/M/D H:MM of the
\* selected date and time themselves, year, month, day and hour without
\* leading zeros and the minute with two digits.
C19_ConfirmEmitsSelection ==
  [][(lastOp' = "handleConfirm" /\ Truthy(selectedDate) /\ Truthy(selectedTime))
       => /\ emitted' =
               <<OnConfirm(SlashDateOf(selectedDate.s) \o SlashTimeOf(selectedTime.s)),
                 OnClose>>
          /\ limit' = emitted'[1].arg
          /\ ~isLimitPickerOpen']_vars

\* A confirm of the first day of 2025 at seven minutes past midnight: no
\* leading zero on month, day and hour, two digits of the minute.
C19_Witness ==
  /\ lastOp = "handleConfirm"
  /\ selectedDate = Str(DateString(2025, 1, 1))
  /\ selectedTime = Str(<<"0", "0", ":", "0", "7">>)
  /\ emitted = <<OnConfirm(<<"2", "0", "2", "5", "/", "1", "/", "1", " ",
                             "0", ":", "0", "7">>), OnClose>>

\* C20: closing the picker by its close button or the Escape key calls
\* onClose alone, never onConfirm, and leaves the form's text as it is; and
\* when the picker is opened, year, month, selectedDate and selectedTime are
\* those of the seed text (the clock's year and month where the seed names
\* no date), whatever an earlier session navigated to or selected.
C20_CancelDiscards ==
  [][/\ (lastOp' \in {"closeLimitPicker", "handleEscapeKey"} /\ isLimitPickerOpen)
          => /\ emitted' = <<OnClose>>
             /\ ~isLimitPickerOpen'
             /\ UNCHANGED limit
     /\ (~isLimitPickerOpen /\ isLimitPickerOpen' /\ mounted' = "mounted")
          => \A seed \in {ParseDefault(Str(limit'))} :
                /\ selectedDate' = seed.date
                /\ selectedTime' = seed.time
                /\ <<year', month'>> =
                     IF seed.date = Null THEN <<HostYear, HostMonth>>
                     ELSE <<NumberOf(SubSeq(seed.date.s, 1, 4)),
                            NumberOf(SubSeq(seed.date.s, 6, 7))>>]_vars

\* A session on an empty seed that went to February 2025, selected the 28th
\* and a time, and was then closed: nothing was emitted but onClose and the
\* form's text is still empty.
C20_Witness ==
  /\ lastOp = "closeLimitPicker"
  /\ emitted = <<OnClose>>
  /\ ~isLimitPickerOpen
  /\ limit = <<>>
  /\ year = 2025 /\ month = 2
  /\ selectedDate = Str(DateString(2025, 2, 28))
  /\ Truthy(selectedTime)

\* C23: the slash notation needs a minute of two digits: a parser returns
\* null for a slash text whose minute is written with one digit, while it
\* accepts month, day and hour written with one digit or with two.
C23_MinuteOfTwoDigits ==
  /\ (Parsed /\ src.fmt = "slashShortMinute" /\ src.mi < 10) => vals[2] = Null
  /\ (Parsed /\ src.fmt \in {"slash", "slashPadded"} /\ ValidLocal(src))
       => vals[2].tag = "str"

\* A day number past the end of its month, at most 31, and the same day
\* counted into the following month.
DayOverflows(c) ==
  /\ c.mo \in 1..12
  /\ c.d > CalendarDays(c.y, c.mo) /\ c.d <= 31
  /\ c.h \in 0..23 /\ c.mi \in 0..59

RolledOver(c) ==
  [c EXCEPT !.y = IF c.mo = 12 THEN c.y + 1 ELSE c.y,
            !.mo = IF c.mo = 12 THEN 1 ELSE c.mo + 1,
            !.d = c.d - CalendarDays(c.y, c.mo)]

\* C24: for a text of a local notation whose day number lies past the end of
\* its month and is at most 31, a parser returns a timestamp, the one it
\* returns for the text naming the corresponding day of the following
\* month; it returns neither null nor throws.
C24_DayRollsOver ==
  (Parsed /\ src.fmt \in LocalFormats /\ DayOverflows(src))
  => /\ vals[2].tag = "str"
     /\ \A rolled \in {Str(TextOf(RolledOver(src)))} :
          vals[2] = IF fns[1] = "parseLimitText" THEN ParseLimitText(rolled)
                    ELSE ParseJapaneseToISO(rolled)

\* The seconds field of a timestamp string: the two characters after
\* YYYY-MM-DDTHH:MM and a colon.
SecondsOf(s) == SubSeq(s, 18, 19)

\* C25: a parser always returns zero seconds: the seconds of a text in the
\* legacy notation YYYY-MM-DD-hh:mm:ss are ignored, and no text of any
\* recognized notation gives a timestamp whose seconds field is not 00.
C25_ZeroSeconds ==
  (Parsed /\ src.fmt \in TextFormats /\ vals[2].tag # "throw")
  => /\ vals[2].tag = "str"
     /\ HasTimestampFields(vals[2].s)
     /\ Len(vals[2].s) >= 19 /\ vals[2].s[17] = ":"
     /\ SecondsOf(vals[2].s) = <<"0", "0">>

\* C26: a text of the exact form YYYY-MM-DDTHH:MM:SSZ is returned as it is,
\* character for character; every other text that is of none of the four
\* local notations gives null, also one that contains the letters T and Z;
\* and the two parsers return the same value for every text.
C26_IsoPassThrough ==
  Parsed
  => /\ src.fmt = "iso" => vals[2] = vals[1]
     /\ src.fmt = "other" => vals[2] = Null
     /\ \A text \in {vals[1]} : ParseLimitText(text) = ParseJapaneseToISO(text)

(***************************************************************************)
(* LimitPicker by itself, under a parent that hands it a deadline text as  *)
(* defaultLimitText, opens it, and on onConfirm keeps the text and closes  *)
(* it, as every form does.  src holds the UTC components of the deadline   *)
(* the seed is written from, vals the seed.                                *)
(***************************************************************************)
\* The deadlines the seeds are written from.
SeedComponents ==
  {c \in StoredComponents("stored") : c.mo \in {2, 12} /\ c.h \in {0, 14, 15, 23}}

\* Seeds of no deadline: the empty text and texts of no notation.
SeedsOfNone ==
  {<<>>, <<" ">>, <<"g", "a", "r", "b", "a", "g", "e">>,
   <<"2", "0", "2", "5", "/", "1", "0", "/", "2", "5">>}

\* The seed of a kind for the deadline c: the text formatISOToJapanese
\* writes, or the stored string itself.
SeedText(kind, c) ==
  IF kind = "seedSlash" THEN FormatISOToJapanese(Str(TextOf(c))).s ELSE TextOf(c)

InitSeed ==
  /\ engine \in Engines
  /\ fns = <<>>
  /\ now = Now0
  /\ hostOffset \in HostOffsets
  /\ form = "none"
  /\ mounted = "mounted"
  /\ taskInStore = FALSE
  /\ taskLimit = Null
  /\ modalOpen = FALSE
  /\ title = ""
  /\ capturedLimit = <<>>
  /\ submitting = "idle"
  /\ request = NoRequest
  /\ isLimitPickerOpen = FALSE
  /\ SetPickerInit
  /\ lastOp = "none"
  /\ emitted = <<>>
  /\ \/ \E kind \in {"seedSlash", "seedIso"}, c \in SeedComponents :
          /\ src = [c EXCEPT !.fmt = kind]
          /\ limit = SeedText(kind, c)
     \/ \E text \in SeedsOfNone :
          /\ src = NoComponents("seedNone")
          /\ limit = text
  /\ vals = <<Str(limit)>>

\* What the picker and its parent leave alone.
UnchangedBySeed ==
  UNCHANGED <<engine, textVars, now, hostOffset, form, taskInStore, taskLimit, title,
              modalOpen, capturedLimit, submitting, request>>

\* isOpen becomes true: the effect on [isOpen, defaultLimitText] runs.
PickerOpens ==
  /\ form = "none" /\ mounted = "mounted" /\ ~isLimitPickerOpen
  /\ isLimitPickerOpen' = TRUE
  /\ PickerEffect(TRUE, limit, Current)
  /\ Quiet
  /\ UNCHANGED limit
  /\ UnchangedBySeed

\* handleConfirm of the picker as it was opened
PickerConfirms ==
  /\ form = "none" /\ mounted = "mounted" /\ isLimitPickerOpen
  /\ IF ~CanSubmit
     THEN /\ Op("handleConfirm", <<>>)
          /\ UNCHANGED <<limit, isLimitPickerOpen>>
     ELSE \E jp \in {ToJpText(selectedDate, selectedTime)} :
            /\ limit' = jp
            /\ isLimitPickerOpen' = FALSE
            /\ Op("handleConfirm", <<OnConfirm(jp), OnClose>>)
  /\ UNCHANGED <<pickerVars, mounted>>
  /\ UnchangedBySeed

\* onClose of the picker
PickerCloses ==
  /\ form = "none" /\ mounted = "mounted" /\ isLimitPickerOpen
  /\ isLimitPickerOpen' = FALSE
  /\ Op("closeLimitPicker", <<OnClose>>)
  /\ UNCHANGED <<pickerVars, mounted, limit>>
  /\ UnchangedBySeed

NextSeed == PickerOpens \/ PickerConfirms \/ PickerCloses

SpecSeed == InitSeed /\ [][NextSeed]_vars

\* YYYY-MM-DD and HH:MM of a date and time, zero-padded.
DashDateOf(f) == NumStr(f.y) \o <<"-">> \o P2(f.mo) \o <<"-">> \o P2(f.d)
ClockTimeOf(f) == P2(f.h) \o <<":">> \o P2(f.mi)

\* C21: opened on a seed the formatter writes (slash form) or on a canonical
\* timestamp, the picker holds the seed's date at UTC+9 as selectedDate, its
\* zero-padded HH:MM at UTC+9 as selectedTime and shows the year and month
\* of that date; opened on a text in the picker's own form and confirmed
\* with no further input, it hands the same text to onConfirm.
C21_SeedPrepopulates ==
  src.fmt \in {"seedSlash", "seedIso"}
  => \A local \in {NineHoursLater(src)} :
       /\ mounted = "mounted"
       /\ isLimitPickerOpen
            => /\ selectedDate = Str(DashDateOf(local))
               /\ selectedTime = Str(ClockTimeOf(local))
               /\ year = local.y /\ month = local.mo
       /\ lastOp = "handleConfirm"
            => /\ emitted = <<OnConfirm(SlashTextOf(local)), OnClose>>
               /\ src.fmt = "seedSlash" => emitted[1] = OnConfirm(vals[1].s)

\* Opened on 2025/1/1 0:05, the text of 2024-12-31T15:05:00Z, and
\* confirmed: the picker showed January 2025 and handed the seed back.
C21_Witness ==
  /\ src = Components("seedSlash", 2024, 12, 31, 15, 5, 0)
  /\ lastOp = "handleConfirm"
  /\ year = 2025 /\ month = 1
  /\ selectedDate = Str(<<"2", "0", "2", "5", "-", "0", "1", "-", "0", "1">>)
  /\ selectedTime = Str(<<"0", "0", ":", "0", "5">>)
  /\ emitted = <<OnConfirm(vals[1].s), OnClose>>
  /\ limit = vals[1].s

\* The year and the month of the clock at UTC+9.
LocalYear == YearFromDay(TimePlus(now, 9 * 60 * 60 * 1000).day)
LocalMonth == MonthFromDay(TimePlus(now, 9 * 60 * 60 * 1000).day) + 1

\* C22: opened on an empty seed or on a text of no notation, the picker has
\* no date and no time selected and shows the year and month of the current
\* instant at UTC+9, whatever the timezone of the host.
C22_DefaultsToLocalNow ==
  (src.fmt = "seedNone" /\ isLimitPickerOpen)
  => /\ selectedDate = Null
     /\ selectedTime = Null
     /\ year = LocalYear /\ month = LocalMonth

\* C27: while the edit modal stays open, the deadline text of its form is
\* set from the stored task at the opening only: afterwards it changes by
\* the user's own input, the picker's confirm or clear, and no update of the
\* store puts the stored value over it.
C27_InitialisedOnOpenOnly ==
  [][(form = "TaskEditModal" /\ modalOpen /\ modalOpen' /\ limit' # limit)
       => lastOp' \in {"handleConfirm", "handleClear"}]_vars

\* The deadline text an edit form shows for the stored deadline when it
\* opens on the task.
OpeningText(stored) ==
  CASE form = "EditTask" -> EditTaskLimitText(stored).s
    [] form = "EditTaskPage" -> EditTaskPageLimitText(stored).s
    [] OTHER -> FormatISOToJapanese(stored).s

\* C28: an edit form opened on a task whose deadline is a canonical
\* timestamp and submitted with the deadline text as the form set it sends
\* a limit of the same instant: the same year, month, day, hour and minute,
\* the hour not shifted by the offset and the minute not dropped.
C28_UntouchedDeadlineKept ==
  [][(/\ form \in EditForms /\ taskInStore /\ Truthy(taskLimit)
      /\ limit = OpeningText(taskLimit)
      /\ submitting = "idle" /\ submitting' = "pending")
     => /\ request'.tag = "str"
        /\ HasTimestampFields(request'.s)
        /\ TimestampFields(request'.s) = TimestampFields(taskLimit.s)]_vars

\* The limit a create form derives from a deadline text.
CreateFormLimitOf(text) ==
  IF form = "TaskCreateForm" THEN TaskCreateFormNextLimit(text)
  ELSE ParseLimitText(Str(text))

\* C30: the limit a create form sends with createTask is derived from the
\* deadline text the form holds when it is submitted, in whatever order the
\* fields were filled: a deadline entered after the title is sent, not the
\* empty deadline of the time the title was typed.
C30_SubmitsCurrentDeadline ==
  [][(form \in CreateForms /\ submitting = "idle" /\ submitting' = "pending")
       => \A sent \in {CreateFormLimitOf(limit)} :
            /\ request' = sent
            /\ Trim(limit) # <<>> => request' # Null]_vars

\* C29: with the picker open over the edit modal, one press of the Escape
\* key closes the picker alone: the picker's onClose is called, the edit
\* modal's is not, and the modal stays open with the values of its form.
C29_EscapeClosesPickerOnly ==
  [][(lastOp' = "handleEscapeKey" /\ isLimitPickerOpen)
       => /\ emitted' = <<OnClose>>
          /\ ~isLimitPickerOpen'
          /\ modalOpen'
          /\ limit' = limit]_vars

====
